---- MODULE Spec2Model ----
(***************************************************************************)
(* Model of the jsonpath package (src/jsonpath.go): the path compiler      *)
(* (Compile, parseKey), the index resolver (parseIndexes, wrapIndex) and   *)
(* the Get/Set evaluators (getNestedValues, setNestedValues).              *)
(*                                                                         *)
(* Go strings are sequences of one-character strings (<<"a","[","0","]">>) *)
(* so that the compiler can be modelled character by character.  A         *)
(* formatted message is the sequence of its pieces.                        *)
(***************************************************************************)
EXTENDS Integers, Sequences, FiniteSets, TLC

(***************************************************************************)
(* Values.  A reflect.Value is a tagged record; Invalid is the zero        *)
(* reflect.Value (MapIndex of an absent key, Elem of a nil interface seen  *)
(* from the evaluator), Null is a nil interface{} stored in a container.   *)
(***************************************************************************)
Invalid == [kind |-> "invalid", val |-> 0]

Null == [kind |-> "null", val |-> 0]

Scalar(v) == [kind |-> "scalar", val |-> v]

Slice(s) == [kind |-> "slice", val |-> s]

Map(f) == [kind |-> "map", val |-> f]

\* reflect.Value.IsValid
IsValid(v) == v.kind # "invalid"

\* reflect.Value.MapIndex: the zero Value when the key is absent
MapIndex(object, k) == IF k \in DOMAIN object.val THEN object.val[k] ELSE Invalid

\* the loop `for object.Kind() == reflect.Ptr || object.Kind() == reflect.Interface`
\* applied to a nil interface leaves the zero Value (Kind() == Invalid)
Deref(object) == IF object.kind = "null" THEN Invalid ELSE object

(***************************************************************************)
(* Errors                                                                  *)
(***************************************************************************)
NotFound == "not_found"

InvalidPath == "invalid_path"

RecursiveMiss == "recursive_miss"

NoErr == [code |-> "", msg |-> <<>>]

Error(code, msg) == [code |-> code, msg |-> msg]

\* err != nil && err.Code != RecursiveMiss
IsHard(err) == err # NoErr /\ err.code # RecursiveMiss

\* strconv formatting of %d
RECURSIVE Digits(_)
Digits(n) ==
    IF n < 10 THEN <<(<<"0","1","2","3","4","5","6","7","8","9">>)[n + 1]>>
    ELSE Digits(n \div 10) \o Digits(n % 10)

Itoa(n) == IF n < 0 THEN <<"-">> \o Digits(0 - n) ELSE Digits(n)

(***************************************************************************)
(* Index resolution                                                        *)
(***************************************************************************)
\* type index
Index(idx, start, hasStart, end, hasEnd) ==
    [idx |-> idx, start |-> start, hasStart |-> hasStart, end |-> end, hasEnd |-> hasEnd]

\* wrapIndex that does not count a negative index from the end
wrapIndexFromStart(idx, length, capLength) ==
    IF idx < 0 \/ (capLength /\ idx >= length)
    THEN [val |-> idx,
          err |-> Error(NotFound, <<"index out of range (">> \o Itoa(idx) \o <<")">>)]
    ELSE [val |-> idx, err |-> NoErr]

wrapIndex(idx, length, capLength) ==
    LET tmp == IF idx < 0 THEN length + idx ELSE idx
    IN  IF tmp < 0 \/ (capLength /\ tmp >= length)
        THEN [val |-> tmp,
              err |-> Error(NotFound, <<"index out of range (">> \o Itoa(idx) \o <<")">>)]
        ELSE [val |-> tmp, err |-> NoErr]

\* makeRange(min, max): min, min+1, ..., max (empty when max = min - 1)
makeRange(min, max) == [i \in 1..(max - min + 1) |-> min + i - 1]

\* a sort into descending order
RECURSIVE sortIntsDescending(_)
sortIntsDescending(S) ==
    IF S = {} THEN <<>>
    ELSE LET m == CHOOSE x \in S : \A y \in S : x >= y
         IN  <<m>> \o sortIntsDescending(S \ {m})

\* sort.Ints over the keys of the temp map
RECURSIVE sortInts(_)
sortInts(S) ==
    IF S = {} THEN <<>>
    ELSE LET m == CHOOSE x \in S : \A y \in S : x <= y
         IN  <<m>> \o sortInts(S \ {m})

\* the loop body with the end bound taken as inclusive (not decremented)
parseIndexesEntryInclusive(idx, length, capLength) ==
    IF ~idx.hasStart /\ ~idx.hasEnd
    THEN LET w == wrapIndex(idx.idx, length, capLength)
         IN  IF w.err # NoErr THEN [add |-> {}, err |-> w.err]
             ELSE [add |-> {w.val}, err |-> NoErr]
    ELSE LET ws == IF idx.hasStart THEN wrapIndex(idx.start, length, capLength)
                   ELSE [val |-> 0, err |-> NoErr]
             we == IF idx.hasEnd THEN wrapIndex(idx.end, length, capLength)
                   ELSE [val |-> length - 1, err |-> NoErr]
         IN  IF ws.err # NoErr THEN [add |-> {}, err |-> ws.err]
             ELSE IF we.err # NoErr THEN [add |-> {}, err |-> we.err]
             ELSE IF ws.val > we.val
                  THEN [add |-> {},
                        err |-> Error(NotFound, <<"indexes out of range [">> \o Itoa(idx.start)
                                                  \o <<":">> \o Itoa(idx.end) \o <<"]">>)]
             ELSE [add |-> ws.val..we.val, err |-> NoErr]

\* the body of `for _, idx := range indexes` for one entry: the positions it
\* adds to temp, or the error it returns
parseIndexesEntry(idx, length, capLength) ==
    IF ~idx.hasStart /\ ~idx.hasEnd
    THEN LET w == wrapIndex(idx.idx, length, capLength)
         IN  IF w.err # NoErr THEN [add |-> {}, err |-> w.err]
             ELSE [add |-> {w.val}, err |-> NoErr]
    ELSE LET ws == IF idx.hasStart THEN wrapIndex(idx.start, length, capLength)
                   ELSE [val |-> 0, err |-> NoErr]
             we == IF idx.hasEnd THEN wrapIndex(idx.end - 1, length, capLength)
                   ELSE [val |-> length - 1, err |-> NoErr]
         IN  IF ws.err # NoErr THEN [add |-> {}, err |-> ws.err]
             ELSE IF we.err # NoErr THEN [add |-> {}, err |-> we.err]
             ELSE IF ws.val = we.val THEN [add |-> {ws.val}, err |-> NoErr]
             ELSE IF ws.val > we.val
                  THEN [add |-> {},
                        err |-> Error(NotFound, <<"indexes out of range [">> \o Itoa(idx.start)
                                                  \o <<":">> \o Itoa(idx.end) \o <<"]">>)]
             ELSE [add |-> {makeRange(ws.val, we.val)[i] : i \in 1..(we.val - ws.val + 1)},
                   err |-> NoErr]

RECURSIVE parseIndexesLoop(_, _, _, _)
parseIndexesLoop(indexes, length, capLength, temp) ==
    IF indexes = <<>> THEN [parsed |-> sortInts(temp), err |-> NoErr]
    ELSE LET e == parseIndexesEntry(Head(indexes), length, capLength)
         IN  IF e.err # NoErr THEN [parsed |-> <<>>, err |-> e.err]
             ELSE parseIndexesLoop(Tail(indexes), length, capLength, temp \cup e.add)

parseIndexes(indexes, length, capLength) == parseIndexesLoop(indexes, length, capLength, {})

(***************************************************************************)
(* Compiled paths                                                          *)
(***************************************************************************)
\* type segment, as parseKey initialises it
Segment(raw) ==
    [raw |-> raw, keys |-> <<>>, indexes |-> <<>>, isKey |-> FALSE, isIndex |-> FALSE,
     isWildcard |-> FALSE, isRecursive |-> FALSE, isMulti |-> FALSE]

\* contains(slice, val)
contains(slice, val) == \E i \in 1..Len(slice) : slice[i] = val

\* slices.Contains(idxsRec, i)
slicesContains(idxs, i) == \E j \in 1..Len(idxs) : idxs[j] = i

RECURSIVE Perms(_)
Perms(S) == IF S = {} THEN {<<>>}
            ELSE UNION {{<<x>> \o p : p \in Perms(S \ {x})} : x \in S}

\* object.MapKeys(): the keys of the map in an unspecified order; every order
\* is a possible outcome
MapKeys(object) == Perms(DOMAIN object.val)

\* reflect.ValueOf(x): the zero Value for a nil interface
ValueOf(x) == IF x = Null THEN Invalid ELSE x

\* reflect.Value.Interface() as the evaluators use it (nil for the zero Value)
Interface(v) == IF IsValid(v) THEN v ELSE Null

(***************************************************************************)
(* Get evaluator.  getNestedValues returns the set of its possible         *)
(* outcomes [vals, isNil, err] (one per order of map iteration): vals is   *)
(* the returned slice, isNil says that it is the nil slice.                *)
(***************************************************************************)
GetStart == [done |-> FALSE, vals |-> <<>>, err |-> NoErr]

GetReturn(err) == [done |-> TRUE, vals |-> <<>>, err |-> err]

\* the next paths that stop the search below a key or index of the segment
getNextPathsOfShallow(path, inSegment) ==
    LET seg == Head(path)
    IN  (IF seg.isRecursive /\ ~inSegment THEN <<path>> ELSE <<>>)
        \o (IF ~seg.isRecursive \/ seg.isWildcard \/ inSegment THEN <<Tail(path)>> ELSE <<>>)

\* the next paths of one key or index
getNextPathsOf(path, inSegment) ==
    LET seg == Head(path)
    IN  (IF seg.isRecursive THEN <<path>> ELSE <<>>)
        \o (IF ~seg.isRecursive \/ seg.isWildcard \/ inSegment THEN <<Tail(path)>> ELSE <<>>)

RECURSIVE getNestedValues(_, _)
RECURSIVE getNextPaths(_, _, _)
RECURSIVE getLoop(_, _, _, _)

\* the loop over the next paths that passes over a path whose evaluation
\* fails
getNextPathsSoft(sts, child, nextPaths) ==
    IF nextPaths = <<>> THEN sts
    ELSE getNextPaths(
            UNION {IF st.done THEN {st}
                   ELSE {IF IsHard(o.err) THEN st
                         ELSE [done |-> FALSE,
                               vals |-> IF o.err = NoErr \/ ~o.isNil
                                        THEN st.vals \o o.vals ELSE st.vals,
                               err |-> o.err]
                         : o \in getNestedValues(child, Head(nextPaths))}
                   : st \in sts},
            child, Tail(nextPaths))

\* `for _, p := range nextPaths`, from each of the loop states sts
getNextPaths(sts, child, nextPaths) ==
    IF nextPaths = <<>> THEN sts
    ELSE getNextPaths(
            UNION {IF st.done THEN {st}
                   ELSE {IF IsHard(o.err) THEN GetReturn(o.err)
                         ELSE [done |-> FALSE,
                               vals |-> IF o.err = NoErr \/ ~o.isNil
                                        THEN st.vals \o o.vals ELSE st.vals,
                               err |-> o.err]
                         : o \in getNestedValues(child, Head(nextPaths))}
                   : st \in sts},
            child, Tail(nextPaths))

\* the loop over keys that passes over a key that the map does not have
getLoopSkip(sts, items, path, missing) ==
    IF items = <<>> THEN sts
    ELSE LET it == Head(items)
             live == {st \in sts : ~st.done}
         IN  getLoop((sts \ live)
                     \cup (IF live = {} THEN {}
                           ELSE IF ~IsValid(it.child) THEN live
                           ELSE getNextPaths(live, it.child,
                                             getNextPathsOf(path, it.inSegment))),
                     Tail(items), path, missing)

\* `for _, k := range keys` / `for _, i := range idxs`: items are the children
\* in iteration order, each with whether its key or index is in the segment
getLoop(sts, items, path, missing) ==
    IF items = <<>> THEN sts
    ELSE LET it == Head(items)
             live == {st \in sts : ~st.done}
         IN  getLoop((sts \ live)
                     \cup (IF live = {} THEN {}
                           ELSE IF ~IsValid(it.child) THEN {GetReturn(missing)}
                           ELSE getNextPaths(live, it.child,
                                             getNextPathsOf(path, it.inSegment))),
                     Tail(items), path, missing)

GetResult(sts) ==
    {IF st.done THEN [vals |-> <<>>, isNil |-> TRUE, err |-> st.err]
     ELSE [vals |-> st.vals, isNil |-> FALSE, err |-> st.err] : st \in sts}

getNestedValues(obj, path) ==
    IF path = <<>>
    THEN {[vals |-> <<Interface(obj)>>, isNil |-> FALSE, err |-> NoErr]}
    ELSE
    LET seg == Head(path)
        fullKey == seg.raw
        object == Deref(obj)
    IN  CASE object.kind = "map" ->
               IF ~(seg.isWildcard \/ seg.isRecursive) /\ seg.isIndex
               THEN {[vals |-> <<>>, isNil |-> TRUE,
                      err |-> Error(NotFound, <<"cannot access map with an index (">>
                                               \o fullKey \o <<")">>)]}
               ELSE UNION {GetResult(getLoop({GetStart},
                               [j \in 1..Len(keys) |->
                                   [child |-> MapIndex(object, keys[j]),
                                    inSegment |-> contains(seg.keys, keys[j])]],
                               path,
                               Error(NotFound, <<"key does not exist (">> \o fullKey \o <<")">>)))
                           : keys \in IF seg.isWildcard \/ seg.isRecursive
                                      THEN MapKeys(object) ELSE {seg.keys}}
          [] object.kind = "slice" ->
               LET len == Len(object.val)
                   all == IF seg.isWildcard \/ seg.isRecursive
                          THEN makeRange(0, len - 1) ELSE <<>>
                   resolve == ~seg.isWildcard \/ seg.isRecursive
                   rec == IF resolve THEN parseIndexes(seg.indexes, len, TRUE)
                          ELSE [parsed |-> <<>>, err |-> NoErr]
                   idxs == IF resolve /\ ~seg.isRecursive THEN rec.parsed ELSE all
               IN  IF resolve /\ ~seg.isRecursive /\ seg.isKey
                   THEN {[vals |-> <<>>, isNil |-> TRUE,
                          err |-> Error(NotFound, <<"cannot access array with a key (">>
                                                   \o fullKey \o <<")">>)]}
                   ELSE IF rec.err # NoErr
                   THEN {[vals |-> <<>>, isNil |-> TRUE, err |-> rec.err]}
                   ELSE GetResult(getLoop({GetStart},
                               [j \in 1..Len(idxs) |->
                                   [child |-> object.val[idxs[j] + 1],
                                    inSegment |-> slicesContains(rec.parsed, idxs[j])]],
                               path, NoErr))
          [] OTHER ->
               IF seg.isRecursive
               THEN {[vals |-> <<>>, isNil |-> TRUE,
                      err |-> Error(RecursiveMiss, <<"path not found (">> \o fullKey \o <<")">>)]}
               ELSE {[vals |-> <<>>, isNil |-> TRUE,
                      err |-> Error(NotFound, <<"path not found (">> \o fullKey \o <<")">>)]}

\* Compiled.Get that unwraps a single result whatever hasMulti is
CompiledGetUnwrap(c, object) ==
    {IF o.err # NoErr /\ o.err.code # RecursiveMiss
     THEN [ret |-> Null, vals |-> o.vals, err |-> o.err]
     ELSE IF o.err # NoErr /\ Len(o.vals) = 0
     THEN [ret |-> Null, vals |-> o.vals, err |-> Error(NotFound, <<"path not found">>)]
     ELSE IF Len(o.vals) = 1
     THEN [ret |-> o.vals[1], vals |-> o.vals, err |-> NoErr]
     ELSE [ret |-> Slice(o.vals), vals |-> o.vals, err |-> NoErr]
     : o \in getNestedValues(ValueOf(object), c.segments)}

\* Compiled.Get that hands the evaluator's error to the caller as it is
CompiledGetRaw(c, object) ==
    {IF o.err # NoErr
     THEN [ret |-> Null, vals |-> o.vals, err |-> o.err]
     ELSE IF ~c.hasMulti /\ Len(o.vals) = 1
     THEN [ret |-> o.vals[1], vals |-> o.vals, err |-> NoErr]
     ELSE [ret |-> Slice(o.vals), vals |-> o.vals, err |-> NoErr]
     : o \in getNestedValues(ValueOf(object), c.segments)}

\* Compiled.Get: the set of possible outcomes [ret, vals, err]; ret is the
\* returned interface{} (Null when an error is returned), vals the slice that
\* getNestedValues produced
CompiledGet(c, object) ==
    {IF o.err # NoErr /\ o.err.code # RecursiveMiss
     THEN [ret |-> Null, vals |-> o.vals, err |-> o.err]
     ELSE IF o.err # NoErr /\ Len(o.vals) = 0
     THEN [ret |-> Null, vals |-> o.vals, err |-> Error(NotFound, <<"path not found">>)]
     ELSE IF ~c.hasMulti /\ Len(o.vals) = 1
     THEN [ret |-> o.vals[1], vals |-> o.vals, err |-> NoErr]
     ELSE [ret |-> Slice(o.vals), vals |-> o.vals, err |-> NoErr]
     : o \in getNestedValues(ValueOf(object), c.segments)}

(***************************************************************************)
(* Set evaluator.  setNestedValues returns the set of its possible         *)
(* outcomes [obj, ret, err, vs]: ret is the returned reflect.Value, err    *)
(* the returned error, vs the value of *valueSet afterwards, and obj the   *)
(* state in which the call leaves the object it was given, as every other  *)
(* holder of that object sees it (maps are mutated in place; the elements  *)
(* of a slice are mutated in place, its length never is).                  *)
(***************************************************************************)
Panic == "panic"

\* isAssignable(a, b) for a dynamic container a (element type interface{}):
\* b.Type() panics on the zero Value, every other value is assignable
isAssignable(a, b) ==
    IF ~IsValid(b) THEN Error(Panic, <<"reflect: call of reflect.Value.Type on zero Value">>)
    ELSE NoErr

\* fillSlice that returns a new slice of nil only when it grows
fillSliceFresh(slice, lastIndex) ==
    LET max == lastIndex + 1
    IN  IF max <= Len(slice) THEN slice
        ELSE [i \in 1..max |-> Null]

\* fillSlice that pads with the number 0 instead of the nil interface
fillSliceZero(slice, lastIndex) ==
    LET max == lastIndex + 1
    IN  IF max <= Len(slice) THEN slice
        ELSE slice \o [i \in 1..(max - Len(slice)) |-> Scalar(0)]

\* fillSlice(slice, lastIndex) on the elements of a []interface{}
fillSlice(slice, lastIndex) ==
    LET max == lastIndex + 1
    IN  IF max <= Len(slice) THEN slice
        ELSE slice \o [i \in 1..(max - Len(slice)) |-> Null]

SetReturn(obj, ret, err, vs) == [obj |-> obj, ret |-> ret, err |-> err, vs |-> vs]

RECURSIVE setNestedValues(_, _, _, _, _)
RECURSIVE setMapLoop(_, _, _, _, _)
RECURSIVE setSliceLoop(_, _, _, _, _, _)
RECURSIVE setNewSliceLoop(_, _, _, _, _)
RECURSIVE setNewMapLoop(_, _, _, _, _)

\* `for _, k := range keys` of the map case; a state is [done, m, ret, err, vs]
setMapLoop(c, sts, keys, path, value) ==
    IF keys = <<>> THEN sts
    ELSE
    LET k == Head(keys)
        seg == Head(path)
        nextPath == IF seg.isRecursive /\ ~contains(seg.keys, k) THEN path ELSE Tail(path)
        step(st) ==
            IF st.done THEN {st}
            ELSE IF c.strictMaps /\ ~IsValid(MapIndex(Map(st.m), k))
            THEN {[st EXCEPT !.done = TRUE,
                             !.err = Error(NotFound, <<"key does not exist (">>
                                                     \o seg.raw \o <<")">>)]}
            ELSE {LET m1 == IF k \in DOMAIN st.m THEN [st.m EXCEPT ![k] = o.obj] ELSE st.m
                      asg == isAssignable(Map(m1), o.ret)
                  IN  IF IsHard(o.err)
                      THEN [done |-> TRUE, m |-> m1, ret |-> o.ret, err |-> o.err, vs |-> o.vs]
                      ELSE IF o.err = NoErr \/ IsValid(o.ret)
                      THEN IF asg # NoErr
                           THEN [done |-> TRUE, m |-> m1, ret |-> o.ret, err |-> asg,
                                 vs |-> o.vs]
                           ELSE [done |-> FALSE,
                                 m |-> [x \in DOMAIN m1 \cup {k} |->
                                           IF x = k THEN o.ret ELSE m1[x]],
                                 ret |-> o.ret, err |-> o.err, vs |-> o.vs]
                      ELSE [done |-> FALSE, m |-> m1, ret |-> o.ret, err |-> o.err,
                            vs |-> o.vs]
                  : o \in setNestedValues(c, MapIndex(Map(st.m), k), nextPath, value, st.vs)}
    IN  setMapLoop(c, UNION {step(st) : st \in sts}, Tail(keys), path, value)

\* `for _, i := range idxs` of the slice case; a state is
\* [done, orig, cur, shared, ret, err, vs]: cur is the slice that fillSlice
\* returned, orig the elements seen through the slice the caller holds, and
\* shared says that both have the same backing array
setSliceLoop(c, sts, idxs, idxsRec, path, value) ==
    IF idxs = <<>> THEN sts
    ELSE
    LET i == Head(idxs)
        seg == Head(path)
        nextPath == IF seg.isRecursive /\ ~slicesContains(idxsRec, i) THEN path ELSE Tail(path)
        step(st) ==
            IF st.done THEN {st}
            ELSE {LET inOrig == i + 1 <= Len(st.orig)
                      cur1 == [st.cur EXCEPT ![i + 1] = o.obj]
                      orig1 == IF inOrig THEN [st.orig EXCEPT ![i + 1] = o.obj] ELSE st.orig
                      asg == isAssignable(Slice(cur1), o.ret)
                  IN  IF IsHard(o.err)
                      THEN [st EXCEPT !.done = TRUE, !.orig = orig1, !.cur = cur1,
                                      !.ret = o.ret, !.err = o.err, !.vs = o.vs]
                      ELSE IF o.err = NoErr \/ IsValid(o.ret)
                      THEN IF asg # NoErr
                           THEN [st EXCEPT !.done = TRUE, !.orig = orig1, !.cur = cur1,
                                           !.ret = o.ret, !.err = asg, !.vs = o.vs]
                           ELSE [st EXCEPT !.cur = [cur1 EXCEPT ![i + 1] = o.ret],
                                           !.orig = IF inOrig /\ st.shared
                                                    THEN [orig1 EXCEPT ![i + 1] = o.ret]
                                                    ELSE orig1,
                                           !.ret = o.ret, !.err = o.err, !.vs = o.vs]
                      ELSE [st EXCEPT !.orig = orig1, !.cur = cur1,
                                      !.ret = o.ret, !.err = o.err, !.vs = o.vs]
                  : o \in setNestedValues(c, st.cur[i + 1], nextPath, value, st.vs)}
    IN  setSliceLoop(c, UNION {step(st) : st \in sts}, Tail(idxs), idxsRec, path, value)

\* `for _, i := range parsed` of the default case, on the new slice;
\* a state is [done, new, ret, err, vs]
setNewSliceLoop(c, sts, parsed, path, value) ==
    IF parsed = <<>> THEN sts
    ELSE
    LET i == Head(parsed)
        step(st) ==
            IF st.done THEN {st}
            ELSE {IF o.err # NoErr
                  THEN [st EXCEPT !.done = TRUE, !.ret = o.ret, !.err = o.err, !.vs = o.vs]
                  ELSE IF ~IsValid(o.ret)
                  THEN [st EXCEPT !.done = TRUE, !.ret = o.ret, !.vs = o.vs,
                                  !.err = Error(Panic, <<"reflect: call of reflect.Value.Set on zero Value">>)]
                  ELSE [st EXCEPT !.new = [st.new EXCEPT ![i + 1] = o.ret],
                                  !.ret = o.ret, !.err = o.err, !.vs = o.vs]
                  : o \in setNestedValues(c, st.new[i + 1], Tail(path), value, st.vs)}
    IN  setNewSliceLoop(c, UNION {step(st) : st \in sts}, Tail(parsed), path, value)

\* the loop on the new map that installs nothing
setNewMapLoopNone(c, sts, keys, path, value) == sts

\* `for _, k := range seg.keys` of the default case, on the new map
setNewMapLoop(c, sts, keys, path, value) ==
    IF keys = <<>> THEN sts
    ELSE
    LET k == Head(keys)
        step(st) ==
            IF st.done THEN {st}
            ELSE {IF o.err # NoErr
                  THEN [st EXCEPT !.done = TRUE, !.ret = o.ret, !.err = o.err, !.vs = o.vs]
                  ELSE IF ~IsValid(o.ret)
                  THEN \* SetMapIndex with the zero Value deletes the key
                       [st EXCEPT !.new = [x \in DOMAIN st.new \ {k} |-> st.new[x]],
                                  !.ret = o.ret, !.err = o.err, !.vs = o.vs]
                  ELSE [st EXCEPT !.new = [x \in DOMAIN st.new \cup {k} |->
                                              IF x = k THEN o.ret ELSE st.new[x]],
                                  !.ret = o.ret, !.err = o.err, !.vs = o.vs]
                  : o \in setNestedValues(c, MapIndex(Map(st.new), k), Tail(path), value, st.vs)}
    IN  setNewMapLoop(c, UNION {step(st) : st \in sts}, Tail(keys), path, value)

setNestedValues(c, obj, path, value, valueSet) ==
    IF path = <<>> THEN {SetReturn(obj, ValueOf(value), NoErr, TRUE)}
    ELSE
    LET seg == Head(path)
        fullKey == seg.raw
        object == Deref(obj)
    IN  CASE object.kind = "map" ->
               IF ~(seg.isWildcard \/ seg.isRecursive) /\ seg.isIndex
               THEN {SetReturn(obj, Invalid,
                               Error(NotFound, <<"cannot set map with an index (">>
                                               \o fullKey \o <<")">>), valueSet)}
               ELSE UNION {{IF st.done THEN SetReturn(Map(st.m), st.ret, st.err, st.vs)
                            ELSE SetReturn(Map(st.m), Map(st.m), st.err, st.vs)
                            : st \in setMapLoop(c, {[done |-> FALSE, m |-> object.val,
                                                     ret |-> Invalid, err |-> NoErr,
                                                     vs |-> valueSet]},
                                                keys, path, value)}
                           : keys \in IF seg.isWildcard \/ seg.isRecursive
                                      THEN MapKeys(object) ELSE {seg.keys}}
          [] object.kind = "slice" ->
               LET len == Len(object.val)
                   all == IF seg.isWildcard \/ seg.isRecursive
                          THEN makeRange(0, len - 1) ELSE <<>>
                   resolve == ~seg.isWildcard \/ seg.isRecursive
                   rec == IF resolve THEN parseIndexes(seg.indexes, len, c.strictSlices)
                          ELSE [parsed |-> <<>>, err |-> NoErr]
                   fill == resolve /\ ~seg.isRecursive
                   idxs == IF fill THEN rec.parsed ELSE all
               IN  IF fill /\ seg.isKey
                   THEN {SetReturn(obj, Invalid,
                                   Error(NotFound, <<"cannot set array with a key (">>
                                                   \o fullKey \o <<")">>), valueSet)}
                   ELSE IF rec.err # NoErr
                   THEN {SetReturn(obj, Invalid, rec.err, valueSet)}
                   ELSE LET cur == IF fill THEN fillSlice(object.val, idxs[Len(idxs)])
                                   ELSE object.val
                            \* a grown slice keeps the backing array when its
                            \* capacity allowed it, and gets a fresh one otherwise
                            sharing == IF Len(cur) > len THEN {TRUE, FALSE} ELSE {TRUE}
                        IN  {IF st.done THEN SetReturn(Slice(st.orig), st.ret, st.err, st.vs)
                             ELSE SetReturn(Slice(st.orig), Slice(st.cur), st.err, st.vs)
                             : st \in setSliceLoop(c,
                                        {[done |-> FALSE, orig |-> object.val, cur |-> cur,
                                          shared |-> sh, ret |-> Invalid, err |-> NoErr,
                                          vs |-> valueSet] : sh \in sharing},
                                        idxs, rec.parsed, path, value)}
          [] OTHER ->
               IF seg.isRecursive
               THEN {SetReturn(obj, Invalid,
                               Error(RecursiveMiss, <<"path not found (">> \o fullKey \o <<")">>),
                               valueSet)}
               ELSE IF c.strictPaths \/ seg.isWildcard
               THEN {SetReturn(obj, Invalid,
                               Error(NotFound, <<"path not found (">> \o fullKey \o <<")">>),
                               valueSet)}
               ELSE IF seg.isIndex
               THEN LET rec == parseIndexes(seg.indexes, 0, FALSE)
                    IN  IF rec.err # NoErr THEN {SetReturn(obj, Invalid, rec.err, valueSet)}
                        ELSE {IF st.done THEN SetReturn(obj, st.ret, st.err, st.vs)
                              ELSE SetReturn(obj, Slice(st.new), st.err, st.vs)
                              : st \in setNewSliceLoop(c,
                                         {[done |-> FALSE,
                                           new |-> fillSlice(<<>>, rec.parsed[Len(rec.parsed)]),
                                           ret |-> Invalid, err |-> NoErr, vs |-> valueSet]},
                                         rec.parsed, path, value)}
               ELSE {IF st.done THEN SetReturn(obj, st.ret, st.err, st.vs)
                     ELSE SetReturn(obj, Map(st.new), st.err, st.vs)
                     : st \in setNewMapLoop(c,
                                {[done |-> FALSE, new |-> <<>>, ret |-> Invalid,
                                  err |-> NoErr, vs |-> valueSet]},
                                seg.keys, path, value)}

\* Compiled.Set that returns nil whatever the walk returned
CompiledSetNil(c, object, value) ==
    {[root |-> Interface(o.obj), assigned |-> o.vs, err |-> NoErr]
     : o \in setNestedValues(c, ValueOf(object), c.segments, value, FALSE)}

\* Compiled.Set: the set of possible outcomes [root, err, assigned]; root is
\* the caller's object after the call, err the returned error (code Panic
\* stands for a run-time panic instead of a return)
CompiledSet(c, object, value) ==
    {[root |-> Interface(o.obj),
      assigned |-> o.vs,
      err |-> IF o.err = NoErr THEN NoErr
              ELSE IF o.err.code # RecursiveMiss THEN o.err
              ELSE IF ~o.vs THEN Error(NotFound, o.err.msg)
              ELSE NoErr]
     : o \in setNestedValues(c, ValueOf(object), c.segments, value, FALSE)}

(***************************************************************************)
(* Set evaluator of the version of the package that also walks structs     *)
(* (src/unnamed/part_001).  Its compiler, parseIndexes and wrapIndex are   *)
(* the ones above; its only strict option is EnableStrictPaths.  The       *)
(* outcomes are the records [obj, ret, err, vs] of setNestedValues.        *)
(***************************************************************************)
\* a string, a []int and a map[string]int: values and containers with a
\* static type next to the dynamic ones (Scalar is an int)
Str(v) == [kind |-> "scalar", val |-> v, type |-> "string"]

IntSlice(s) == [kind |-> "slice", val |-> s, elem |-> "int"]

IntMap(f) == [kind |-> "map", val |-> f, elem |-> "int"]

\* object.Type().Elem() of a map or slice
ElemType(object) == IF "elem" \in DOMAIN object THEN object.elem ELSE "interface {}"

\* reflect.Type of a value, by name
TypeOf(v) ==
    CASE v.kind = "scalar" -> IF "type" \in DOMAIN v THEN v.type ELSE "int"
      [] v.kind = "map" -> IF ElemType(v) = "int" THEN "map[string]int"
                           ELSE "map[string]interface {}"
      [] v.kind = "slice" -> IF ElemType(v) = "int" THEN "[]int" ELSE "[]interface {}"

\* reflect.Type.AssignableTo
AssignableTo(t, elemType) == elemType = "interface {}" \/ t = elemType

\* the zero value of an element type: reflect.New(t).Elem(), and the
\* elements that reflect.MakeSlice makes
ZeroValue(elemType) == IF elemType = "int" THEN Scalar(0) ELSE Null

\* reflect.Value.IsZero on the values of the documents: the number 0 is the
\* zero value of its type, a non-nil map or slice is not
IsZero(v) == v.kind = "scalar" /\ v.val = 0

\* the container with other contents
WithVal(object, val) == [object EXCEPT !.val = val]

\* (c *Compiled) EnableStrictPaths()
EnableStrictPaths(c) == [c EXCEPT !.strictPaths = TRUE]

\* setCommon after its call of setNestedValues returned o: whether setValue
\* installs o.ret, and the error that setCommon returns
setCommon(o, elemType) ==
    IF IsHard(o.err) THEN [install |-> FALSE, err |-> o.err]
    ELSE IF IsValid(o.ret)
    THEN IF ~AssignableTo(TypeOf(o.ret), elemType)
         THEN [install |-> FALSE,
               err |-> Error(NotFound, <<"cannot assign type ", TypeOf(o.ret),
                                         " to type ", elemType>>)]
         ELSE [install |-> TRUE, err |-> o.err]
    ELSE [install |-> FALSE, err |-> o.err]

\* sliceIndexes(object, seg, capLength) on a slice of length len
sliceIndexes(len, seg, capLength) ==
    LET all == IF seg.isWildcard \/ seg.isRecursive THEN makeRange(0, len - 1) ELSE <<>>
        rec == parseIndexes(seg.indexes, len, capLength)
    IN  IF seg.isWildcard THEN [idxs |-> all, segIdxs |-> <<>>, err |-> NoErr]
        ELSE IF ~seg.isRecursive /\ seg.isKey
        THEN [idxs |-> <<>>, segIdxs |-> <<>>,
              err |-> Error(NotFound, <<"cannot access array with a key (">>
                                      \o seg.raw \o <<")">>)]
        ELSE IF rec.err # NoErr THEN [idxs |-> <<>>, segIdxs |-> <<>>, err |-> rec.err]
        ELSE [idxs |-> IF seg.isRecursive THEN all ELSE rec.parsed,
              segIdxs |-> rec.parsed, err |-> NoErr]

\* fillSlice on the elements of a slice with the element type elemType
fillSliceOf(elemType, slice, lastIndex) ==
    LET max == lastIndex + 1
    IN  IF max <= Len(slice) THEN slice
        ELSE slice \o [i \in 1..(max - Len(slice)) |-> ZeroValue(elemType)]

RECURSIVE setNestedValuesTyped(_, _, _, _, _, _)
RECURSIVE setMapLoopTyped(_, _, _, _, _)
RECURSIVE setSliceLoopTyped(_, _, _, _, _, _)
RECURSIVE setNewSliceLoopTyped(_, _, _, _, _)
RECURSIVE setNewMapLoopTyped(_, _, _, _, _)

\* `for _, k := range keys` of the map case; a state is
\* [done, obj, err, vs], obj being the map.  The loop assigns the result of
\* setCommon to err and goes on: only the strictPaths check of a missing key
\* returns from inside the loop.  A missing element of a map with a static
\* element type is the settable zero value of that type when the path goes
\* on (initNewValue(objectType).Elem())
setMapLoopTyped(c, sts, keys, path, value) ==
    IF keys = <<>> THEN sts
    ELSE
    LET k == Head(keys)
        seg == Head(path)
        nextPath == IF seg.isRecursive /\ ~contains(seg.keys, k) THEN path ELSE Tail(path)
        step(st) ==
            IF st.done THEN {st}
            ELSE IF c.strictPaths /\ ~IsValid(MapIndex(st.obj, k))
            THEN {[st EXCEPT !.done = TRUE,
                             !.err = Error(NotFound, <<"key does not exist (">>
                                                     \o seg.raw \o <<")">>)]}
            ELSE {LET m == st.obj.val
                      m1 == IF k \in DOMAIN m THEN [m EXCEPT ![k] = o.obj] ELSE m
                      r == setCommon(o, ElemType(st.obj))
                  IN  [done |-> r.err # NoErr /\ r.err.code = Panic,
                       obj |-> WithVal(st.obj,
                                 IF r.install
                                 THEN [x \in DOMAIN m1 \cup {k} |-> IF x = k THEN o.ret ELSE m1[x]]
                                 ELSE m1),
                       err |-> r.err, vs |-> o.vs]
                  : o \in setNestedValuesTyped(c,
                             IF IsValid(MapIndex(st.obj, k)) THEN MapIndex(st.obj, k)
                             ELSE ValueOf(ZeroValue(ElemType(st.obj))),
                             ~IsValid(MapIndex(st.obj, k)) /\ ElemType(st.obj) # "interface {}",
                             nextPath, value, st.vs)}
    IN  setMapLoopTyped(c, UNION {step(st) : st \in sts}, Tail(keys), path, value)

\* `for _, i := range idxs` of the slice case; a state is
\* [done, obj, cur, shared, err, vs]: cur is the elements of the slice that
\* fillSlice returned, obj the slice that the caller holds, and shared says
\* that both have the same backing array.  The loop assigns the result of
\* setCommon to err and goes on.  An element of a slice with a static
\* element type can be set; an element held in an interface{} cannot
setSliceLoopTyped(c, sts, idxs, segIdxs, path, value) ==
    IF idxs = <<>> THEN sts
    ELSE
    LET i == Head(idxs)
        seg == Head(path)
        nextPath == IF seg.isRecursive /\ ~slicesContains(segIdxs, i) THEN path ELSE Tail(path)
        step(st) ==
            IF st.done THEN {st}
            ELSE {LET orig == st.obj.val
                      inOrig == i + 1 <= Len(orig)
                      cur1 == [st.cur EXCEPT ![i + 1] = o.obj]
                      orig1 == IF inOrig THEN [orig EXCEPT ![i + 1] = o.obj] ELSE orig
                      r == setCommon(o, ElemType(st.obj))
                  IN  [st EXCEPT !.done = r.err # NoErr /\ r.err.code = Panic,
                                 !.cur = IF r.install THEN [cur1 EXCEPT ![i + 1] = o.ret]
                                         ELSE cur1,
                                 !.obj = WithVal(st.obj,
                                           IF r.install /\ inOrig /\ st.shared
                                           THEN [orig1 EXCEPT ![i + 1] = o.ret]
                                           ELSE orig1),
                                 !.err = r.err, !.vs = o.vs]
                  : o \in setNestedValuesTyped(c, st.cur[i + 1],
                                               ElemType(st.obj) # "interface {}",
                                               nextPath, value, st.vs)}
    IN  setSliceLoopTyped(c, UNION {step(st) : st \in sts}, Tail(idxs), segIdxs, path, value)

\* `for _, i := range parsed` of the default case, on the new slice;
\* a state is [done, new, ret, err, vs]
setNewSliceLoopTyped(c, sts, parsed, path, value) ==
    IF parsed = <<>> THEN sts
    ELSE
    LET i == Head(parsed)
        step(st) ==
            IF st.done THEN {st}
            ELSE {IF o.err # NoErr
                  THEN [st EXCEPT !.done = TRUE, !.ret = o.ret, !.err = o.err, !.vs = o.vs]
                  ELSE IF ~IsValid(o.ret)
                  THEN [st EXCEPT !.ret = o.ret, !.err = o.err, !.vs = o.vs]
                  ELSE [st EXCEPT !.new = [st.new EXCEPT ![i + 1] = o.ret],
                                  !.ret = o.ret, !.err = o.err, !.vs = o.vs]
                  : o \in setNestedValuesTyped(c, st.new[i + 1], FALSE, Tail(path),
                                               value, st.vs)}
    IN  setNewSliceLoopTyped(c, UNION {step(st) : st \in sts}, Tail(parsed), path, value)

\* `for _, k := range seg.keysRefl` of the default case, on the new map
setNewMapLoopTyped(c, sts, keys, path, value) ==
    IF keys = <<>> THEN sts
    ELSE
    LET k == Head(keys)
        step(st) ==
            IF st.done THEN {st}
            ELSE {IF o.err # NoErr
                  THEN [st EXCEPT !.done = TRUE, !.ret = o.ret, !.err = o.err, !.vs = o.vs]
                  ELSE IF ~IsValid(o.ret)
                  THEN [st EXCEPT !.ret = o.ret, !.err = o.err, !.vs = o.vs]
                  ELSE [st EXCEPT !.new = [x \in DOMAIN st.new \cup {k} |->
                                              IF x = k THEN o.ret ELSE st.new[x]],
                                  !.ret = o.ret, !.err = o.err, !.vs = o.vs]
                  : o \in setNestedValuesTyped(c, MapIndex(Map(st.new), k), FALSE,
                                               Tail(path), value, st.vs)}
    IN  setNewMapLoopTyped(c, UNION {step(st) : st \in sts}, Tail(keys), path, value)

\* setNestedValues of the version with structs, on documents of maps, slices
\* and scalars, dynamic or with the element type int; canSet is
\* objectRef.CanSet() of the object that the caller passed
setNestedValuesTyped(c, obj, canSet, path, value, valueSet) ==
    IF path = <<>> THEN {SetReturn(obj, ValueOf(value), NoErr, TRUE)}
    ELSE
    LET seg == Head(path)
        fullKey == seg.raw
        objectRef == Deref(obj)
    IN  IF IsValid(objectRef) /\ IsZero(objectRef) /\ (c.strictPaths \/ ~canSet)
        THEN {SetReturn(obj, Invalid,
                        Error(NotFound,
                              IF c.strictPaths
                              THEN <<"path not found (">> \o fullKey \o <<")">>
                              ELSE <<"object is not addressable (">> \o fullKey \o <<")">>),
                        valueSet)}
        ELSE
        CASE objectRef.kind = "map" ->
               IF ~(seg.isWildcard \/ seg.isRecursive) /\ seg.isIndex
               THEN {SetReturn(obj, Invalid,
                               Error(NotFound, <<"cannot access map with an index (">>
                                               \o fullKey \o <<")">>), valueSet)}
               ELSE UNION {{IF st.done THEN SetReturn(st.obj, Invalid, st.err, st.vs)
                            ELSE SetReturn(st.obj, st.obj, st.err, st.vs)
                            : st \in setMapLoopTyped(c, {[done |-> FALSE, obj |-> objectRef,
                                                          err |-> NoErr, vs |-> valueSet]},
                                                     keys, path, value)}
                           : keys \in IF seg.isWildcard \/ seg.isRecursive
                                      THEN MapKeys(objectRef) ELSE {seg.keys}}
          [] objectRef.kind = "slice" ->
               LET len == Len(objectRef.val)
                   si == sliceIndexes(len, seg, c.strictPaths)
               IN  IF si.err # NoErr THEN {SetReturn(obj, Invalid, si.err, valueSet)}
                   ELSE IF si.idxs = <<>>
                   THEN \* idxs[len(idxs)-1] of an empty idxs
                        {SetReturn(obj, Invalid,
                                   Error(Panic, <<"runtime error: index out of range [-1]">>),
                                   valueSet)}
                   ELSE LET cur == fillSliceOf(ElemType(objectRef), objectRef.val,
                                               si.idxs[Len(si.idxs)])
                            sharing == IF Len(cur) > len THEN {TRUE, FALSE} ELSE {TRUE}
                        IN  {IF st.done THEN SetReturn(st.obj, Invalid, st.err, st.vs)
                             ELSE SetReturn(st.obj, WithVal(st.obj, st.cur), st.err, st.vs)
                             : st \in setSliceLoopTyped(c,
                                        {[done |-> FALSE, obj |-> objectRef, cur |-> cur,
                                          shared |-> sh, err |-> NoErr, vs |-> valueSet]
                                         : sh \in sharing},
                                        si.idxs, si.segIdxs, path, value)}
          [] OTHER ->
               IF seg.isRecursive
               THEN {SetReturn(obj, Invalid,
                               Error(RecursiveMiss, <<"path not found (">> \o fullKey \o <<")">>),
                               valueSet)}
               ELSE IF c.strictPaths \/ seg.isWildcard
               THEN {SetReturn(obj, Invalid,
                               Error(NotFound, <<"path not found (">> \o fullKey \o <<")">>),
                               valueSet)}
               ELSE IF seg.isIndex
               THEN LET rec == parseIndexes(seg.indexes, 0, FALSE)
                    IN  IF rec.err # NoErr THEN {SetReturn(obj, Invalid, rec.err, valueSet)}
                        ELSE {IF st.done THEN SetReturn(obj, st.ret, st.err, st.vs)
                              ELSE SetReturn(obj, Slice(st.new), st.err, st.vs)
                              : st \in setNewSliceLoopTyped(c,
                                         {[done |-> FALSE,
                                           new |-> fillSlice(<<>>, rec.parsed[Len(rec.parsed)]),
                                           ret |-> Invalid, err |-> NoErr, vs |-> valueSet]},
                                         rec.parsed, path, value)}
               ELSE {IF st.done THEN SetReturn(obj, st.ret, st.err, st.vs)
                     ELSE SetReturn(obj, Map(st.new), st.err, st.vs)
                     : st \in setNewMapLoopTyped(c,
                                {[done |-> FALSE, new |-> <<>>, ret |-> Invalid,
                                  err |-> NoErr, vs |-> valueSet]},
                                seg.keys, path, value)}

\* Compiled.Set of the version with structs
CompiledSetTyped(c, object, value) ==
    {[root |-> Interface(o.obj),
      assigned |-> o.vs,
      err |-> IF o.err = NoErr THEN NoErr
              ELSE IF o.err.code # RecursiveMiss THEN o.err
              ELSE IF ~o.vs THEN Error(NotFound, o.err.msg)
              ELSE NoErr]
     : o \in setNestedValuesTyped(c, ValueOf(object), FALSE, c.segments, value, FALSE)}

(***************************************************************************)
(* Path compiler                                                           *)
(***************************************************************************)
\* unicode.IsSpace on the characters the model uses
IsSpace(ch) == ch \in {" ", "\t", "\n", "\r"}

IsDigit(ch) == ch \in {"0", "1", "2", "3", "4", "5", "6", "7", "8", "9"}

DigitVal(ch) == CHOOSE d \in 0..9 : Digits(d) = <<ch>>

\* lastChar(val)
lastChar(val) == IF Len(val) = 0 THEN "" ELSE val[Len(val)]

\* strings.TrimPrefix(str, prefix) for a one-character prefix
TrimPrefix(str, prefix) ==
    IF Len(str) > 0 /\ str[1] = prefix THEN Tail(str) ELSE str

\* strings.TrimSpace
RECURSIVE TrimSpace(_)
TrimSpace(str) ==
    IF str = <<>> THEN str
    ELSE IF IsSpace(str[1]) THEN TrimSpace(Tail(str))
    ELSE IF IsSpace(str[Len(str)]) THEN TrimSpace(SubSeq(str, 1, Len(str) - 1))
    ELSE str

\* strings.ReplaceAll(str, "\\" + quoteChar, quoteChar)
RECURSIVE ReplaceAll(_, _)
ReplaceAll(str, quoteChar) ==
    IF Len(str) < 2 THEN str
    ELSE IF str[1] = "\\" /\ str[2] = quoteChar
    THEN <<quoteChar>> \o ReplaceAll(SubSeq(str, 3, Len(str)), quoteChar)
    ELSE <<str[1]>> \o ReplaceAll(Tail(str), quoteChar)

RECURSIVE ParseUint(_, _)
ParseUint(str, acc) ==
    IF str = <<>> THEN acc ELSE ParseUint(Tail(str), acc * 10 + DigitVal(str[1]))

\* strconv.Atoi on strings short enough not to overflow an int
Atoi(str) ==
    LET signed == Len(str) > 0 /\ str[1] \in {"+", "-"}
        digits == IF signed THEN Tail(str) ELSE str
    IN  IF digits = <<>> \/ \E i \in 1..Len(digits) : ~IsDigit(digits[i])
        THEN [ok |-> FALSE, val |-> 0]
        ELSE [ok |-> TRUE,
              val |-> IF signed /\ str[1] = "-" THEN 0 - ParseUint(digits, 0)
                      ELSE ParseUint(digits, 0)]

\* one group (-?\d+) of rangeRegex
IsRangeBound(str) ==
    LET digits == IF Len(str) > 0 /\ str[1] = "-" THEN Tail(str) ELSE str
    IN  digits # <<>> /\ \A i \in 1..Len(digits) : IsDigit(digits[i])

\* rangeRegex.FindStringSubmatch(k) for `^(-?\d+)?:(-?\d+)?$`: the two groups
\* ("" for a group that did not take part), or no match
rangeRegex(k) ==
    LET colons == {i \in 1..Len(k) : k[i] = ":"}
    IN  IF Cardinality(colons) # 1 THEN [match |-> FALSE, g1 |-> <<>>, g2 |-> <<>>]
        ELSE LET i == CHOOSE x \in colons : TRUE
                 g1 == SubSeq(k, 1, i - 1)
                 g2 == SubSeq(k, i + 1, Len(k))
             IN  IF (g1 = <<>> \/ IsRangeBound(g1)) /\ (g2 = <<>> \/ IsRangeBound(g2))
                 THEN [match |-> TRUE, g1 |-> g1, g2 |-> g2]
                 ELSE [match |-> FALSE, g1 |-> <<>>, g2 |-> <<>>]

\* the loop of parseKey that splits the bracket content into its entries;
\* the state is [segment, readSegment, quoted, quoteChar, keys]
RECURSIVE splitKey(_, _)
splitKey(key, st) ==
    IF key = <<>> THEN st
    ELSE
    LET ch == Head(key)
        next ==
            IF st.readSegment
            THEN IF ~st.quoted /\ IsSpace(ch) THEN st
                 ELSE IF ~st.quoted /\ ch = ","
                 THEN [st EXCEPT !.readSegment = FALSE,
                                 !.keys = Append(st.keys, st.segment),
                                 !.segment = <<>>]
                 ELSE IF st.quoted /\ ch = st.quoteChar /\ lastChar(st.segment) # "\\"
                 THEN [st EXCEPT !.segment = Append(ReplaceAll(st.segment, st.quoteChar), ch),
                                 !.quoted = FALSE]
                 ELSE [st EXCEPT !.segment = Append(st.segment, ch)]
            ELSE IF ~IsSpace(ch)
            THEN [st EXCEPT !.readSegment = TRUE,
                            !.quoteChar = IF ch \in {"'", "\""} THEN ch ELSE st.quoteChar,
                            !.quoted = IF ch \in {"'", "\""} THEN TRUE ELSE st.quoted,
                            !.segment = Append(st.segment, ch)]
            ELSE st
    IN  splitKey(Tail(key), next)

\* the index entry of a range whose groups are g1 and g2
rangeIndex(g1, g2, start, end) ==
    Index(0, IF g1 # <<>> THEN start.val ELSE 0, g1 # <<>>,
             IF g2 # <<>> THEN end.val ELSE 0, g2 # <<>>)

\* parseKey, entry k matched rangeRegex: the two Atoi calls and the test of
\* equal bounds
classifyRange(st, g1, g2, start, end, idx) ==
    IF (g1 # <<>> /\ ~start.ok) \/ (g2 # <<>> /\ ~end.ok)
    THEN [st EXCEPT !.done = TRUE, !.err = Error(InvalidPath, <<"invalid range">>)]
    ELSE IF idx.hasStart /\ idx.hasEnd /\ idx.start = idx.end
    THEN [st EXCEPT !.done = TRUE,
                    !.result.indexes = Append(st.result.indexes, idx),
                    !.result.isMulti = TRUE,
                    !.err = Error(InvalidPath,
                                  <<"invalid index range [">> \o Itoa(idx.start)
                                  \o <<":">> \o Itoa(idx.end) \o <<"]">>)]
    ELSE [st EXCEPT !.result.indexes = Append(st.result.indexes, idx),
                    !.result.isMulti = TRUE]

\* the same body without the two tests for a quoted string
classifyKeyBare(st, i, k, num) ==
    IF k = <<"*">>
    THEN IF Len(st.keys) > 1
         THEN [st EXCEPT !.done = TRUE,
                         !.err = Error(InvalidPath,
                                       <<"cannot use a wildcard with a multi-select">>)]
         ELSE [st EXCEPT !.done = TRUE, !.result.isWildcard = TRUE,
                         !.result.isMulti = TRUE]
    ELSE IF num.ok
    THEN [st EXCEPT !.result.indexes = Append(st.result.indexes,
                                              Index(num.val, 0, FALSE, 0, FALSE))]
    ELSE st

\* parseKey, the body of `for i, k := range keys` for the entry k, where num
\* is the result of strconv.Atoi(k)
classifyKey(st, i, k, num) ==
    IF k = <<"*">>
    THEN IF Len(st.keys) > 1
         THEN [st EXCEPT !.done = TRUE,
                         !.err = Error(InvalidPath,
                                       <<"cannot use a wildcard with a multi-select">>)]
         ELSE [st EXCEPT !.done = TRUE, !.result.isWildcard = TRUE,
                         !.result.isMulti = TRUE]
    ELSE IF Len(k) >= 2 /\ k[1] \in {"\"", "'"} /\ k[Len(k)] = k[1]
    THEN [st EXCEPT !.keys[i] = SubSeq(k, 2, Len(k) - 1)]
    ELSE IF num.ok
    THEN [st EXCEPT !.result.indexes = Append(st.result.indexes,
                                              Index(num.val, 0, FALSE, 0, FALSE))]
    ELSE st

\* the same body from the rangeRegex match on, for an entry that is no
\* wildcard, no quoted key and no integer
classifyRangeKey(st, rk, start, end) ==
    IF rk.match
    THEN classifyRange(st, rk.g1, rk.g2, start, end, rangeIndex(rk.g1, rk.g2, start, end))
    ELSE st

\* whether the entry k reaches the rangeRegex match
reachesRange(k, num) ==
    /\ k # <<"*">>
    /\ ~(Len(k) >= 2 /\ k[1] \in {"\"", "'"} /\ k[Len(k)] = k[1])
    /\ ~num.ok

matchRange(st, rk) == classifyRangeKey(st, rk, Atoi(rk.g1), Atoi(rk.g2))

classifyEntry(st, i, k, num) ==
    IF reachesRange(k, num) THEN matchRange(st, rangeRegex(k))
    ELSE classifyKey(st, i, k, num)

\* the loop `for i, k := range keys` of parseKey; the state is
\* [result, keys, done, err]
RECURSIVE classifyKeys(_, _)
classifyKeys(i, st) ==
    IF st.done \/ i > Len(st.keys) THEN st
    ELSE classifyKeys(i + 1, classifyEntry(st, i, st.keys[i], Atoi(st.keys[i])))

\* parseKey from `result.isMulti = result.isMulti || len(keys) > 1` on
parseKeyResult(n, keys, resultM) ==
    IF Len(resultM.indexes) = 0
    THEN [seg |-> [resultM EXCEPT !.isKey = TRUE, !.keys = keys], err |-> NoErr]
    ELSE IF Len(resultM.indexes) # n
    THEN [seg |-> [resultM EXCEPT !.isIndex = TRUE],
          err |-> Error(InvalidPath,
                        <<"cannot specify both array indexes and map keys in a multi-select">>)]
    ELSE [seg |-> [resultM EXCEPT !.isIndex = TRUE], err |-> NoErr]

\* parseKey after its classifying loop, which ended in the state cl
parseKeyClassified(n, cl) ==
    IF cl.done THEN [seg |-> cl.result, err |-> cl.err]
    ELSE parseKeyResult(n, cl.keys, [cl.result EXCEPT !.isMulti = cl.result.isMulti \/ n > 1])

\* parseKey with the entries keys
parseKeyEntries(result, keys) ==
    parseKeyClassified(Len(keys), classifyKeys(1, [result |-> result, keys |-> keys,
                                                   done |-> FALSE, err |-> NoErr]))

\* parseKey after its splitting loop, which ended in the state split
parseKeySplit(result, split) ==
    IF split.readSegment /\ split.quoted
    THEN [seg |-> result, err |-> Error(InvalidPath, <<"missing closing quote">>)]
    ELSE parseKeyEntries(result, IF split.readSegment THEN Append(split.keys, split.segment)
                                 ELSE split.keys)

\* parseKey of a bracket segment whose trimmed content is key
parseKeyBracket(result, key) ==
    IF key = <<>>
    THEN [seg |-> result, err |-> Error(InvalidPath, <<"empty path segment">>)]
    ELSE parseKeySplit(result, splitKey(key, [segment |-> <<>>, readSegment |-> FALSE,
                                              quoted |-> FALSE, quoteChar |-> "",
                                              keys |-> <<>>]))

\* parseKey from the check for square brackets on
parseKeyBody(result, fullKey) ==
    IF fullKey[1] # "[" \/ fullKey[Len(fullKey)] # "]"
    THEN [seg |-> [result EXCEPT !.isKey = TRUE, !.keys = <<fullKey>>], err |-> NoErr]
    ELSE parseKeyBracket(result, TrimSpace(SubSeq(fullKey, 2, Len(fullKey) - 1)))

\* parseKey of a recursive segment, the second dot trimmed
parseKeyRecursive(result, fullKey) ==
    IF fullKey = <<>> \/ fullKey[1] = "."
    THEN [seg |-> result, err |-> Error(InvalidPath, <<"invalid recursive path">>)]
    ELSE parseKeyBody(result, fullKey)

\* parseKey after the first TrimPrefix
parseKeyTrimmed(result, fullKey) ==
    IF fullKey = <<>>
    THEN [seg |-> result, err |-> Error(InvalidPath, <<"empty path segment">>)]
    ELSE IF fullKey = <<"*">>
    THEN [seg |-> [result EXCEPT !.isWildcard = TRUE, !.isMulti = TRUE], err |-> NoErr]
    ELSE IF fullKey[1] = "."
    THEN parseKeyRecursive([result EXCEPT !.isRecursive = TRUE, !.isMulti = TRUE],
                           TrimPrefix(fullKey, "."))
    ELSE parseKeyBody(result, fullKey)

\* parseKey(fullKey): [seg, err]
parseKey(raw) == parseKeyTrimmed(Segment(raw), TrimPrefix(raw, "."))

\* the Compiled struct
NewCompiled(raw) ==
    [raw |-> raw, segments |-> <<>>, hasMulti |-> FALSE,
     strictPaths |-> FALSE, strictMaps |-> FALSE, strictSlices |-> FALSE]

\* the same compiled path with no strict flag set, as Compile returns it
NewCompiledOf(c) ==
    [c EXCEPT !.strictPaths = FALSE, !.strictMaps = FALSE, !.strictSlices = FALSE]

\* (c *Compiled) SetStrict and its three parts
MSetStrict(c) == [c EXCEPT !.strictPaths = TRUE, !.strictMaps = TRUE, !.strictSlices = TRUE]

MSetStrictPaths(c) == [c EXCEPT !.strictPaths = TRUE]

MSetStrictMaps(c) == [c EXCEPT !.strictMaps = TRUE]

MSetStrictSlices(c) == [c EXCEPT !.strictSlices = TRUE]

\* the package-level options SetStrict, SetStrictPaths, SetStrictMaps and
\* SetStrictSlices, by name
ApplyOption(c, option) ==
    CASE option = "SetStrict" -> MSetStrict(c)
      [] option = "SetStrictPaths" -> MSetStrictPaths(c)
      [] option = "SetStrictMaps" -> MSetStrictMaps(c)
      [] option = "SetStrictSlices" -> MSetStrictMaps(c)

RECURSIVE ApplyOptions(_, _)
ApplyOptions(c, options) ==
    IF options = <<>> THEN c
    ELSE ApplyOptions(ApplyOption(c, Head(options)), Tail(options))

\* `segment, err := parseKey(key)` and the two appends that follow it, pk
\* being what parseKey returned
appendParsed(st, pk) ==
    IF pk.err # NoErr THEN [st EXCEPT !.done = TRUE, !.err = pk.err]
    ELSE [st EXCEPT !.segments = Append(st.segments, pk.seg),
                    !.hasMulti = st.hasMulti \/ pk.seg.isMulti]

appendSegment(st, key) == appendParsed(st, parseKey(key))

\* Compile stops with an InvalidPath error
compileFail(st, msg) == [st EXCEPT !.done = TRUE, !.err = Error(InvalidPath, <<msg>>)]

\* the end of the loop body: the key is closed (st2 is the state after
\* appendSegment) or the character joins the key
compileKey(st, ch, keyEnd, st2) ==
    IF st2.done THEN st2
    ELSE [st2 EXCEPT !.key = IF keyEnd THEN <<ch>> ELSE Append(st.key, ch)]

\* the state with the flags of the loop written back
compileFlags(st, inQuote, quoteChar, inBracket) ==
    [st EXCEPT !.inQuote = inQuote, !.quoteChar = quoteChar, !.inBracket = inBracket]

\* the loop body from the '.' test on: dot, open and close tell whether the
\* character is an unquoted '.' that ends a key, '[' or ']'
compileChar(st, ch, i, last, opens, inQuote, dot, open, close, keyEnd, st1) ==
    IF opens /\ ~st.inBracket THEN compileFail(st, "cannot use quotes outside of brackets")
    ELSE IF dot /\ last THEN compileFail(st, "path cannot end with '.' separator")
    ELSE IF open /\ st.inBracket THEN compileFail(st, "missing closing bracket")
    ELSE IF close /\ ~(open \/ st.inBracket)
    THEN compileFail(st, "missing opening bracket")
    ELSE IF IsSpace(ch) /\ ~inQuote /\ ~st1.inBracket
    THEN compileFail(st, "cannot use whitespace characters outside quotes and brackets")
    ELSE compileKey(st, ch, keyEnd, IF keyEnd THEN appendSegment(st1, st.key) ELSE st1)

\* the loop body once the quote state is known
compileUnquoted(st, ch, i, last, opens, inQuote, quoteChar, dot, open, close) ==
    compileChar(st, ch, i, last, opens, inQuote, dot, open, close,
                dot \/ (open /\ i # 0 /\ st.key # <<".">> /\ st.key # <<".", ".">>),
                compileFlags(st, inQuote, quoteChar,
                             IF close THEN FALSE ELSE IF open THEN TRUE ELSE st.inBracket))

compileQuoted(st, ch, i, last, opens, inQuote) ==
    compileUnquoted(st, ch, i, last, opens, inQuote,
                    IF opens THEN ch ELSE st.quoteChar,
                    ch = "." /\ ~inQuote /\ st.key # <<>> /\ st.key # <<".">>,
                    ch = "[" /\ ~inQuote,
                    ch = "]" /\ ~inQuote)

\* the quote handling at the head of the loop body: closes when the
\* character ends the open quote
compileQuote(st, ch, i, last, closes) ==
    compileQuoted(st, ch, i, last,
                  ~closes /\ ~st.inQuote /\ ch \in {"'", "\""},
                  IF closes THEN FALSE
                  ELSE IF ~st.inQuote /\ ch \in {"'", "\""} THEN TRUE ELSE st.inQuote)

\* the body of the loop of Compile for the character ch at position i
compileStep(st, ch, i, last) ==
    compileQuote(st, ch, i, last,
                 st.inQuote /\ ch = st.quoteChar /\ lastChar(st.key) # "\\")

\* the loop `for i, c := range path` of Compile (i counts from 0); the state
\* is [key, inBracket, inQuote, quoteChar, segments, hasMulti, done, err]
RECURSIVE compileLoop(_, _, _)
compileLoop(path, i, st) ==
    IF st.done \/ i >= Len(path) THEN st
    ELSE compileLoop(path, i + 1, compileStep(st, path[i + 1], i, i = Len(path) - 1))

\* a nil *Compiled and an error
compileNil(err) == [c |-> NewCompiled(<<>>), isNil |-> TRUE, err |-> err]

\* a Compile that ends without looking at the open bracket or quote
compileEndOpen(compiled, st, fin) ==
    IF fin.done THEN compileNil(fin.err)
    ELSE [c |-> [compiled EXCEPT !.segments = fin.segments, !.hasMulti = fin.hasMulti],
          isNil |-> FALSE, err |-> NoErr]

\* Compile after the last key was parsed, fin being the state after it
compileEnd(compiled, st, fin) ==
    IF fin.done THEN compileNil(fin.err)
    ELSE IF st.inBracket THEN compileNil(Error(InvalidPath, <<"missing closing bracket">>))
    ELSE IF st.inQuote THEN compileNil(Error(InvalidPath, <<"missing closing quote">>))
    ELSE [c |-> [compiled EXCEPT !.segments = fin.segments, !.hasMulti = fin.hasMulti],
          isNil |-> FALSE, err |-> NoErr]

\* Compile after its loop, which ended in the state st
compileLast(compiled, st) ==
    IF st.done THEN compileNil(st.err)
    ELSE compileEnd(compiled, st, IF st.key # <<>> THEN appendSegment(st, st.key) ELSE st)

\* Compile from the loop on
compilePath(compiled, path) ==
    IF path = <<".">> THEN [c |-> compiled, isNil |-> FALSE, err |-> NoErr]
    ELSE compileLast(compiled,
                     compileLoop(path, 0,
                                 [key |-> <<>>, inBracket |-> FALSE, inQuote |-> FALSE,
                                  quoteChar |-> "", segments |-> <<>>, hasMulti |-> FALSE,
                                  done |-> FALSE, err |-> NoErr]))

\* Compile with the options applied
compileWith(compiled, raw) ==
    IF raw = <<>>
    THEN [c |-> compiled, isNil |-> FALSE, err |-> Error(InvalidPath, <<"empty path">>)]
    ELSE compilePath(compiled, TrimPrefix(raw, "$"))

\* Compile(path, options...): [c, isNil, err], isNil for a nil *Compiled
Compile(raw, options) == compileWith(ApplyOptions(NewCompiled(raw), options), raw)

\* Get(object, path) of the package: compile, then evaluate
Get(object, path) ==
    LET cp == Compile(path, <<>>)
    IN  IF cp.err # NoErr THEN {[ret |-> Null, vals |-> <<>>, err |-> cp.err]}
        ELSE CompiledGet(cp.c, object)

\* Set(object, path, value) of the package
Set(object, path, v) ==
    LET cp == Compile(path, <<>>)
    IN  IF cp.err # NoErr THEN {[root |-> object, assigned |-> FALSE, err |-> cp.err]}
        ELSE CompiledSet(cp.c, object, v)

(***************************************************************************)
(* Get evaluator of the version with structs (src/unnamed/part_001).  A    *)
(* struct is the sequence of its fields [name, hasTag, tag, val] in        *)
(* declaration order; hasTag and tag are the lookup of the struct tag that *)
(* UseStructTag named.  structFields writes the field names over the       *)
(* elements of seg.keys, and seg.keys shares its array with the segment of *)
(* the compiled path: the evaluator therefore carries the segments of the  *)
(* compiled path (segs) as state, a path being the position pos of its     *)
(* first segment in them.  Outcomes are [vals, err, segs].                 *)
(***************************************************************************)
Struct(fields) == [kind |-> "struct", val |-> fields]

Field(name, hasTag, tag, val) == [name |-> name, hasTag |-> hasTag, tag |-> tag, val |-> val]

\* reflect.Value.FieldByName: the zero Value when no field has the name
FieldByName(object, f) ==
    IF \E i \in 1..Len(object.val) : object.val[i].name = f
    THEN object.val[CHOOSE i \in 1..Len(object.val) : object.val[i].name = f].val
    ELSE Invalid

\* tagMap[k] after the loop over the fields: the last field whose tag is k,
\* and the empty string when there is none
tagMapAt(object, k) ==
    LET tagged == {i \in 1..Len(object.val) : object.val[i].hasTag /\ object.val[i].tag = k}
    IN  IF tagged = {} THEN <<>>
        ELSE object.val[CHOOSE i \in tagged : \A j \in tagged : j <= i].name

\* structFields(object, seg), keys being the elements of seg.keys when it is
\* called: the fields to visit, segFields, the error, and the elements of
\* seg.keys afterwards (segFields = seg.keys is the same array)
structFields(structTagSet, object, seg, keys) ==
    LET names == [i \in 1..Len(object.val) |-> object.val[i].name]
        all == IF seg.isWildcard \/ seg.isRecursive \/ structTagSet THEN names ELSE <<>>
        segFields == IF structTagSet
                     THEN [i \in 1..Len(keys) |-> tagMapAt(object, keys[i])]
                     ELSE keys
    IN  IF seg.isWildcard
        THEN [fields |-> all, segFields |-> <<>>, err |-> NoErr, keys |-> keys]
        ELSE IF seg.isIndex
        THEN [fields |-> <<>>, segFields |-> <<>>, keys |-> keys,
              err |-> Error(NotFound, <<"cannot access struct field with an index (">>
                                      \o seg.raw \o <<")">>)]
        ELSE [fields |-> IF seg.isRecursive THEN all ELSE segFields,
              segFields |-> segFields, err |-> NoErr, keys |-> segFields]

RECURSIVE getNestedValuesTyped(_, _, _, _, _)
RECURSIVE getCommon(_, _, _, _, _)
RECURSIVE getLoopTyped(_, _, _, _, _, _)

\* the loop `for _, p := range nextPaths` of getCommon on the child, from
\* each of the states sts = [done, brk, vals, err, segs]; brk says that
\* getCommon has returned
getCommon(structTagSet, c, sts, child, nextPaths) ==
    IF nextPaths = <<>> THEN sts
    ELSE getCommon(structTagSet, c,
            UNION {IF st.done \/ st.brk THEN {st}
                   ELSE {IF IsHard(o.err)
                         THEN [st EXCEPT !.brk = TRUE, !.err = o.err, !.segs = o.segs]
                         ELSE [st EXCEPT !.vals = st.vals \o o.vals, !.err = o.err,
                                         !.segs = o.segs]
                         : o \in getNestedValuesTyped(structTagSet, c, st.segs, child,
                                                      Head(nextPaths))}
                   : st \in sts},
            child, Tail(nextPaths))

\* the loops over keys, fields and indexes: items are the children in
\* iteration order with their key, field name or index; missing is the
\* error returned for a child that is the zero Value.  The result of
\* getCommon is assigned to result and err, and the loop goes on
getLoopTyped(structTagSet, c, sts, items, pos, missing) ==
    IF items = <<>> THEN sts
    ELSE
    LET it == Head(items)
        seg == c.segments[pos]
        inSegment(st) ==
            CASE it.kind = "map" -> contains(seg.keys, it.key)
              [] it.kind = "struct" -> contains(st.segs[pos].keys, it.key)
              [] it.kind = "slice" -> slicesContains(it.segIdxs, it.key)
        nextPaths(st) ==
            (IF seg.isRecursive THEN <<pos>> ELSE <<>>)
            \o (IF ~seg.isRecursive \/ seg.isWildcard \/ inSegment(st)
                THEN <<pos + 1>> ELSE <<>>)
        step(st) ==
            IF st.done THEN {st}
            ELSE IF ~IsValid(it.child)
            THEN {[st EXCEPT !.done = TRUE, !.vals = <<>>, !.err = missing]}
            ELSE getCommon(structTagSet, c, {[st EXCEPT !.brk = FALSE]}, it.child,
                           nextPaths(st))
    IN  getLoopTyped(structTagSet, c, UNION {step(st) : st \in sts}, Tail(items), pos, missing)

getNestedValuesTyped(structTagSet, c, segs, obj, pos) ==
    IF pos > Len(segs) THEN {[vals |-> <<Interface(obj)>>, err |-> NoErr, segs |-> segs]}
    ELSE
    LET seg == c.segments[pos]
        fullKey == seg.raw
        object == Deref(obj)
        start == {[done |-> FALSE, brk |-> FALSE, vals |-> <<>>, err |-> NoErr, segs |-> segs]}
        result(sts) == {[vals |-> st.vals, err |-> st.err, segs |-> st.segs] : st \in sts}
        fail(err) == {[vals |-> <<>>, err |-> err, segs |-> segs]}
    IN  CASE ~IsValid(object) ->
               fail(Error(NotFound, <<"path not found (">> \o fullKey \o <<")">>))
          [] object.kind = "map" ->
               IF ~(seg.isWildcard \/ seg.isRecursive) /\ seg.isIndex
               THEN fail(Error(NotFound, <<"cannot access map with an index (">>
                                         \o fullKey \o <<")">>))
               ELSE UNION {result(getLoopTyped(structTagSet, c, start,
                               [j \in 1..Len(keys) |->
                                   [kind |-> "map", child |-> MapIndex(object, keys[j]),
                                    key |-> keys[j]]],
                               pos,
                               Error(NotFound, <<"key does not exist (">> \o fullKey \o <<")">>)))
                           : keys \in IF seg.isWildcard \/ seg.isRecursive
                                      THEN MapKeys(object) ELSE {seg.keys}}
          [] object.kind = "struct" ->
               LET sf == structFields(structTagSet, object, seg, segs[pos].keys)
                   segs1 == [segs EXCEPT ![pos].keys = sf.keys]
               IN  IF sf.err # NoErr THEN fail(sf.err)
                   ELSE result(getLoopTyped(structTagSet, c,
                               {[done |-> FALSE, brk |-> FALSE, vals |-> <<>>,
                                 err |-> NoErr, segs |-> segs1]},
                               [j \in 1..Len(sf.fields) |->
                                   [kind |-> "struct",
                                    child |-> FieldByName(object, sf.fields[j]),
                                    key |-> sf.fields[j]]],
                               pos,
                               Error(NotFound, <<"field does not exist (">> \o fullKey \o <<")">>)))
          [] object.kind = "slice" ->
               LET si == sliceIndexes(Len(object.val), seg, TRUE)
               IN  IF si.err # NoErr THEN fail(si.err)
                   ELSE result(getLoopTyped(structTagSet, c, start,
                               [j \in 1..Len(si.idxs) |->
                                   [kind |-> "slice", child |-> object.val[si.idxs[j] + 1],
                                    key |-> si.idxs[j], segIdxs |-> si.segIdxs]],
                               pos, NoErr))
          [] OTHER ->
               IF seg.isRecursive
               THEN fail(Error(RecursiveMiss, <<"path not found (">> \o fullKey \o <<")">>))
               ELSE fail(Error(NotFound, <<"path not found (">> \o fullKey \o <<")">>))

\* Compiled.Get of the version with structs: the possible outcomes
\* [ret, vals, err] and the compiled path c as the evaluation leaves it.
\* The keys that the map case compares (seg.keysRefl) are never written:
\* they are the keys that Compile produced from c.raw
CompiledGetTyped(structTagSet, c, object) ==
    {[c |-> [c EXCEPT !.segments = o.segs],
      out |-> IF o.err # NoErr /\ o.err.code # RecursiveMiss
              THEN [ret |-> Null, vals |-> o.vals, err |-> o.err]
              ELSE IF o.err # NoErr /\ Len(o.vals) = 0
              THEN [ret |-> Null, vals |-> o.vals, err |-> Error(NotFound, <<"path not found">>)]
              ELSE IF ~c.hasMulti /\ Len(o.vals) = 1
              THEN [ret |-> o.vals[1], vals |-> o.vals, err |-> NoErr]
              ELSE [ret |-> Slice(o.vals), vals |-> o.vals, err |-> NoErr]]
     : o \in getNestedValuesTyped(structTagSet, Compile(c.raw, <<>>).c, c.segments,
                                  ValueOf(object), 1)}

(***************************************************************************)
(* The program: a caller holds a decoded document (root) and either uses   *)
(* the one-shot Get and Set of the package, or compiles one path,          *)
(* optionally makes it strict, and evaluates it with Get and Set.          *)
(***************************************************************************)
VARIABLES root, pre, value, path, compiled, op, getOut, setOut, sets

vars == <<root, pre, value, path, compiled, op, getOut, setOut, sets>>

\* bounds of the documents and of the runs
MaxLen == 2

MaxSets == 1

IdxLen == 3

ka == <<"a">>

kb == <<"b">>

Keys == {ka, kb}

Leaves == {Null, Scalar(1)}

\* all sequences of length at most n over S
SeqsUpTo(S, n) == UNION {[1..m -> S] : m \in 0..n}

\* all maps from some of the keys into S
MapsOver(S) == UNION {[D -> S] : D \in SUBSET Keys}

\* documents of nesting depth at most one, and at most two
Level1 == Leaves \cup {Map(f) : f \in MapsOver(Leaves)}
                 \cup {Slice(q) : q \in SeqsUpTo(Leaves, MaxLen)}

Roots == Level1 \cup {Map(f) : f \in MapsOver(Level1)}
                \cup {Slice(<<x>>) : x \in Level1}

\* the values that Set installs
Values == {Scalar(7), Null}

\* the paths of the callers
Paths ==
    { <<".">>,
      <<"a">>,
      <<"a", ".", "b">>,
      <<"a", "[", "0", "]">>,
      <<"a", "[", "1", "]">>,
      <<"[", "0", "]">>,
      <<"[", "1", "]">>,
      <<"[", "-", "1", "]">>,
      <<"[", "0", "]", ".", "a">>,
      <<"[", "a", ",", "b", "]">>,
      <<"[", "0", ",", "1", "]">>,
      <<"a", "[", "0", ":", "2", "]">>,
      <<"a", ".", "*">>,
      <<"[", "*", "]">>,
      <<".", ".", "b">>,
      <<"a", ".", ".", "b">>,
      <<".", ".", "[", "0", "]">>,
      <<".", ".", "[", "*", "]">>,
      <<"a", ".", ".">>,
      <<"a", "[", "1", ":", "1", "]">> }

\* the documents and paths of the callers that index sequences: the sequence
\* 1, 2, ..., n at the root or under the key a, and bracket segments of one
\* or two entries, each an index or a range with optional bounds
Iota(n) == [i \in 1..n |-> Scalar(i)]

IdxRoots == {Slice(Iota(n)) : n \in 0..IdxLen}
            \cup {Map(ka :> Slice(Iota(n))) : n \in 0..IdxLen}

IndexText(k) == Itoa(k)

RangeText(lo, hi) == lo \o <<":">> \o hi

BoundTexts == {<<>>} \cup {Itoa(k) : k \in -1..(IdxLen + 1)}

EntryTexts == {IndexText(k) : k \in (0 - IdxLen - 1)..(IdxLen + 1)}
              \cup {RangeText(lo, hi) : lo \in BoundTexts, hi \in BoundTexts}

Bracket(entries) == <<"[">> \o entries \o <<"]">>

\* the entries that are paired in a two-entry segment
PairTexts == {IndexText(k) : k \in -1..2}
             \cup {RangeText(lo, hi) : lo \in {<<>>, Itoa(0), Itoa(1)},
                                       hi \in {<<>>, Itoa(2), Itoa(-1)}}

\* two entries in one bracket
PairPaths == {e1 \o <<",">> \o e2 : e1 \in PairTexts, e2 \in PairTexts}

IdxPaths == {Bracket(e) : e \in EntryTexts}
            \cup {ka \o Bracket(e) : e \in EntryTexts}
            \cup {Bracket(e) : e \in PairPaths}

NoGet == [ret |-> Null, vals |-> <<>>, err |-> NoErr]

NoSet == [err |-> NoErr, assigned |-> FALSE]

\* what the caller holds after Compile: the *Compiled, the error, and the
\* options and strict methods it has applied so far, by name
Configured(cp, config) ==
    [c |-> cp.c, isNil |-> cp.isNil, err |-> cp.err, config |-> config]

InitOn(roots) ==
    /\ root \in roots
    /\ pre = Null
    /\ value = Null
    /\ path = <<>>
    /\ compiled = Configured([c |-> NewCompiled(<<>>), isNil |-> TRUE, err |-> NoErr], <<>>)
    /\ op = "init"
    /\ getOut = NoGet
    /\ setOut = NoSet
    /\ sets = 0

Init == InitOn(Roots)

InitIdx == InitOn(IdxRoots)

\* a usable *Compiled: Compile returned no error
Usable == op \in {"Compile", "SetStrict", "Set", "Get"} /\ compiled.err = NoErr

\* compiled, err := Compile(p)
DoCompile(p) ==
    /\ op = "init"
    /\ path' = p
    /\ compiled' = Configured(Compile(p, <<>>), <<>>)
    /\ op' = "Compile"
    /\ UNCHANGED <<root, pre, value, getOut, setOut, sets>>

\* compiled.SetStrict()
DoSetStrict ==
    /\ Usable /\ op = "Compile"
    /\ compiled' = [compiled EXCEPT !.c = MSetStrict(compiled.c),
                                    !.config = Append(compiled.config, "c.SetStrict")]
    /\ op' = "SetStrict"
    /\ UNCHANGED <<root, pre, value, path, getOut, setOut, sets>>

\* compiled, err := Compile(p, option)
DoCompileWith(p, option) ==
    /\ op = "init"
    /\ path' = p
    /\ compiled' = Configured(Compile(p, <<option>>), <<option>>)
    /\ op' = "Compile"
    /\ UNCHANGED <<root, pre, value, getOut, setOut, sets>>

\* the methods c.SetStrict(), c.SetStrictPaths(), c.SetStrictMaps() and
\* c.SetStrictSlices(), by name
ApplyMethod(c, method) ==
    CASE method = "c.SetStrict" -> MSetStrict(c)
      [] method = "c.SetStrictPaths" -> MSetStrictPaths(c)
      [] method = "c.SetStrictMaps" -> MSetStrictMaps(c)
      [] method = "c.SetStrictSlices" -> MSetStrictSlices(c)

\* one of the strict methods called on a path compiled without options
DoStrictMethod(method) ==
    /\ Usable /\ op = "Compile" /\ compiled.config = <<>>
    /\ compiled' = [compiled EXCEPT !.c = ApplyMethod(compiled.c, method),
                                    !.config = <<method>>]
    /\ op' = "SetStrict"
    /\ UNCHANGED <<root, pre, value, path, getOut, setOut, sets>>

\* err := compiled.Set(root, v)
DoSet(v) ==
    /\ Usable
    /\ sets < MaxSets
    /\ \E o \in CompiledSet(compiled.c, root, v) :
          /\ root' = o.root
          /\ setOut' = [err |-> o.err, assigned |-> o.assigned]
    /\ pre' = root
    /\ value' = v
    /\ op' = "Set"
    /\ sets' = sets + 1
    /\ UNCHANGED <<path, compiled, getOut>>

\* val, err := compiled.Get(root)
DoGet ==
    /\ Usable
    /\ op # "Get"
    /\ \E o \in CompiledGet(compiled.c, root) : getOut' = o
    /\ op' = "Get"
    /\ UNCHANGED <<root, pre, value, path, compiled, setOut, sets>>

\* err := Set(root, p, v)
DoSetPath(p, v) ==
    /\ op = "init"
    /\ sets < MaxSets
    /\ \E o \in Set(root, p, v) :
          /\ root' = o.root
          /\ setOut' = [err |-> o.err, assigned |-> o.assigned]
    /\ pre' = root
    /\ value' = v
    /\ path' = p
    /\ op' = "SetPath"
    /\ sets' = sets + 1
    /\ UNCHANGED <<compiled, getOut>>

\* val, err := Get(root, p), at the start or for the path just set
DoGetPath(p) ==
    /\ op = "init" \/ (op = "SetPath" /\ p = path)
    /\ \E o \in Get(root, p) : getOut' = o
    /\ path' = p
    /\ op' = "GetPath"
    /\ UNCHANGED <<root, pre, value, compiled, setOut, sets>>

\* a fresh caller compiles a path or makes a one-shot call
Start(p) ==
    \/ DoCompile(p)
    \/ DoGetPath(p)
    \/ \E v \in Values : DoSetPath(p, v)

\* what a caller does with the path it has
Use ==
    \/ DoSetStrict
    \/ \E v \in Values : DoSet(v)
    \/ DoGet
    \/ op = "SetPath" /\ DoGetPath(path)

Next ==
    \/ op = "init" /\ \E p \in Paths : Start(p)
    \/ Use

Spec == Init /\ [][Next]_vars

NextIdx ==
    \/ op = "init" /\ \E p \in IdxPaths : Start(p)
    \/ Use

SpecIdx == InitIdx /\ [][NextIdx]_vars

\* the callers that configure strictness: a map that holds under the key a
\* a sequence, nil or a map, and paths that grow the sequence, add the key
\* b, or pass through a
OptRoots == {Map(ka :> Slice(Iota(n))) : n \in 0..MaxLen}
            \cup {Map(ka :> x) : x \in {Null, Map(<<>>), Map(kb :> Scalar(1))}}
            \cup {Map(<<>>)}

OptPaths == {ka \o Bracket(IndexText(k)) : k \in 0..(MaxLen + 1)}
            \cup {kb, ka, ka \o <<".">> \o kb, kb \o <<".">> \o ka}

Options == {"SetStrict", "SetStrictPaths", "SetStrictMaps", "SetStrictSlices"}

Methods == {"c.SetStrict", "c.SetStrictPaths", "c.SetStrictMaps", "c.SetStrictSlices"}

InitOpt == InitOn(OptRoots)

NextOpt ==
    \/ op = "init" /\ \E p \in OptPaths : DoCompile(p) \/ \E o \in Options : DoCompileWith(p, o)
    \/ \E m \in Methods : DoStrictMethod(m)
    \/ \E v \in Values : DoSet(v)
    \/ DoGet

SpecOpt == InitOpt /\ [][NextOpt]_vars

kc == <<"c">>

\* the callers of the version with structs: documents whose branches differ
\* (a scalar next to a map, a []int next to a []interface{}), the number 0,
\* maps and slices with the element type int, and paths that select several
\* branches
TypedRoots ==
    {Map(ka :> Scalar(1) @@ kb :> Map(kc :> Scalar(1))),
     Map(ka :> Map(kc :> Scalar(1)) @@ kb :> Scalar(1)),
     Map(ka :> Map(kc :> Scalar(1)) @@ kb :> Map(<<>>)),
     Map(ka :> Scalar(0)),
     Map(ka :> Null),
     Map(ka :> Slice(<<Scalar(1)>>)),
     Map(<<>>),
     Slice(<<Scalar(1), Map(kc :> Scalar(1))>>),
     Slice(<<Map(kc :> Scalar(1)), Scalar(1)>>),
     Slice(<<>>),
     Map(ka :> IntSlice(<<Scalar(1)>>) @@ kb :> Slice(<<Scalar(1)>>)),
     Map(ka :> Slice(<<Scalar(1)>>) @@ kb :> IntSlice(<<Scalar(1)>>)),
     Map(ka :> IntSlice(<<Scalar(1)>>)),
     Map(ka :> IntMap(kb :> Scalar(1))),
     IntMap(kb :> Scalar(1))}

\* the values that the callers set: an int, a string and nil
TypedValues == {Scalar(7), Str(7), Null}

TypedPaths ==
    { Bracket(<<"a", ",", "b">>) \o <<".", "*">>,
      Bracket(<<"a", ",", "b">>) \o Bracket(IndexText(0)),
      ka \o Bracket(IndexText(0)),
      Bracket(<<"a", ",", "b">>) \o <<".">> \o kc,
      <<"*", ".", "*">>,
      Bracket(<<"0", ",", "1">>) \o <<".", "*">>,
      Bracket(<<"*">>) \o <<".">> \o kc,
      ka \o <<".">> \o kb,
      ka \o Bracket(IndexText(1)),
      <<".", ".">> \o kc,
      kb }

InitTyped == InitOn(TypedRoots)

\* compiled.EnableStrictPaths()
DoEnableStrictPaths ==
    /\ Usable /\ op = "Compile" /\ compiled.config = <<>>
    /\ compiled' = [compiled EXCEPT !.c = EnableStrictPaths(compiled.c),
                                    !.config = <<"c.EnableStrictPaths">>]
    /\ op' = "SetStrict"
    /\ UNCHANGED <<root, pre, value, path, getOut, setOut, sets>>

\* err := compiled.Set(root, v) of the version with structs
DoSetTyped(v) ==
    /\ Usable
    /\ sets < MaxSets
    /\ \E o \in CompiledSetTyped(compiled.c, root, v) :
          /\ root' = o.root
          /\ setOut' = [err |-> o.err, assigned |-> o.assigned]
    /\ pre' = root
    /\ value' = v
    /\ op' = "Set"
    /\ sets' = sets + 1
    /\ UNCHANGED <<path, compiled, getOut>>

NextTyped ==
    \/ op = "init" /\ \E p \in TypedPaths : DoCompile(p)
    \/ DoEnableStrictPaths
    \/ \E v \in TypedValues : DoSetTyped(v)

SpecTyped == InitTyped /\ [][NextTyped]_vars

\* the callers that evaluate a compiled path on structs: the fields N and
\* S, with the tags n and s, with a tag equal to the field name, or without
\* a tag; structs in a struct, in a slice and in a map
FieldN(hasTag, tag, val) == Field(<<"N">>, hasTag, tag, val)

StructsN == {Struct(<<FieldN(TRUE, <<"n">>, Scalar(1))>>),
             Struct(<<FieldN(TRUE, <<"N">>, Scalar(1))>>),
             Struct(<<FieldN(FALSE, <<>>, Scalar(1))>>)}

StructRoots ==
    StructsN
    \cup {Struct(<<FieldN(TRUE, <<"n">>, Scalar(1)), Field(<<"S">>, TRUE, <<"s">>, x)>>)
          : x \in StructsN}
    \cup {Slice(<<x, x>>) : x \in StructsN}
    \cup {Map(ka :> x) : x \in StructsN}

StructPaths ==
    { <<"n">>, <<"N">>, <<"s", ".", "n">>, <<"S", ".", "N">>,
      Bracket(<<"*">>) \o <<".", "n">>, ka \o <<".", "n">>, <<".", ".", "n">>, <<"*">> }

InitStruct == InitOn(StructRoots)

\* compiled.UseStructTag(tag), tag being the one that the fields declare
DoUseStructTag ==
    /\ Usable /\ op = "Compile" /\ compiled.config = <<>>
    /\ compiled' = [compiled EXCEPT !.config = <<"c.UseStructTag">>]
    /\ op' = "SetStrict"
    /\ UNCHANGED <<root, pre, value, path, getOut, setOut, sets>>

\* c.structTagSet of the path that the caller holds
StructTagSet == compiled.config = <<"c.UseStructTag">>

\* val, err := compiled.Get(root) of the version with structs
DoGetTyped ==
    /\ Usable
    /\ \E o \in CompiledGetTyped(StructTagSet, compiled.c, root) :
          /\ getOut' = o.out
          /\ compiled' = [compiled EXCEPT !.c = o.c]
    /\ op' = "Get"
    /\ UNCHANGED <<root, pre, value, path, setOut, sets>>

NextStruct ==
    \/ op = "init" /\ \E p \in StructPaths : DoCompile(p)
    \/ DoUseStructTag
    \/ DoGetTyped

SpecStruct == InitStruct /\ [][NextStruct]_vars

\* the callers that compile paths of brackets and quotes: every path of at
\* most PathLen characters out of a letter, the separator, the brackets, a
\* quote and the backslash
PathLen == 5

PathChars == {"a", ".", "[", "]", "'", "\\"}

BracketPaths == SeqsUpTo(PathChars, PathLen) \ {<<>>}

InitBracket == InitOn({Map(<<>>)})

NextBracket == \E p \in BracketPaths : DoCompile(p)

SpecBracket == InitBracket /\ [][NextBracket]_vars

\* the callers that compile one quoted bracket entry: the text between the
\* quotes has at most TextLen pieces, each a letter, a digit, '*', ':', ',',
\* a space, '.', a bracket or the escaped quote
TextLen == 3

TextPieces == {"a", "1", "*", ":", ",", " ", ".", "[", "]", "\\q"}

\* the characters of the text between quotes q
RECURSIVE TextChars(_, _)
TextChars(text, q) ==
    IF text = <<>> THEN <<>>
    ELSE (IF Head(text) = "\\q" THEN <<"\\", q>> ELSE <<Head(text)>>)
         \o TextChars(Tail(text), q)

QuotedPaths ==
    {<<"[", q>> \o TextChars(text, q) \o <<q, "]">>
     : q \in {"'", "\""}, text \in SeqsUpTo(TextPieces, TextLen)}

InitQuoted == InitOn({Map(<<>>)})

NextQuoted == \E p \in QuotedPaths : DoCompile(p)

SpecQuoted == InitQuoted /\ [][NextQuoted]_vars

\* the callers that search a key at any depth below the key a: documents
\* that nest maps and one-element sequences over the keys b and c below a,
\* next to a key b outside a
Nest0 == {Scalar(2), Scalar(3), Null}

Nest1 == Nest0 \cup {Map(f) : f \in UNION {[D -> Nest0] : D \in SUBSET {kb, kc}}}
               \cup {Slice(<<x>>) : x \in {Scalar(2), Map(kb :> Scalar(3))}}

Nest2 == Nest1 \cup {Map(f) : f \in UNION {[D -> Nest1 \ {Scalar(3), Null}]
                                             : D \in SUBSET {kb, kc}}}

DeepRoots == {Map(ka :> x) : x \in Nest2} \cup {Map(ka :> x @@ kb :> Scalar(1)) : x \in Nest2}

DeepPaths == {ka \o <<".", ".">> \o kb, ka \o <<".", ".">> \o kc, <<".", ".">> \o kb,
              <<".", ".">> \o kb \o <<".">> \o kc}

InitDeep == InitOn(DeepRoots)

NextDeep ==
    \/ op = "init" /\ \E p \in DeepPaths : DoCompile(p) \/ DoGetPath(p)
    \/ DoGet

SpecDeep == InitDeep /\ [][NextDeep]_vars

\* the callers that search an index at any depth below the key a: maps over
\* the keys b and c and sequences of nil, numbers and sequences of up to two
\* elements
Seq0 == {Scalar(2), Null, Slice(<<>>), Slice(<<Scalar(2)>>), Slice(<<Scalar(2), Scalar(3)>>)}

Seq1 == Seq0 \cup {Map(f) : f \in UNION {[D -> Seq0] : D \in SUBSET {kb, kc}}}
             \cup {Slice(<<x>>) : x \in Seq0} \cup {Slice(<<x, Scalar(1)>>) : x \in Seq0}

SeqRoots == {Map(ka :> x) : x \in Seq1}

SeqPaths == {ka \o <<".", ".">> \o Bracket(IndexText(1)), <<".", ".">> \o Bracket(IndexText(1))}

InitSeq == InitOn(SeqRoots)

NextSeq ==
    \/ op = "init" /\ \E p \in SeqPaths : DoCompile(p) \/ DoGetPath(p)
    \/ DoGet

SpecSeq == InitSeq /\ [][NextSeq]_vars

\* the callers that set into documents with siblings: maps and sequences
\* that hold other keys and elements next to those the paths select, a key
\* b inside the value of a key b, and numbers and nil where paths go on
FrameRoots ==
    {Map(ka :> Map(kb :> Scalar(1) @@ kc :> Scalar(2)) @@ kb :> Slice(<<Scalar(1), Scalar(2)>>)),
     Map(ka :> Slice(<<Map(kb :> Scalar(1)), Scalar(2)>>) @@ kc :> Scalar(3)),
     Slice(<<Map(ka :> Scalar(1) @@ kb :> Scalar(2)), Slice(<<Scalar(1), Scalar(2)>>)>>),
     Map(kb :> Map(kc :> Scalar(2) @@ kb :> Map(kc :> Scalar(3)))),
     Map(ka :> Slice(<<Scalar(1)>>) @@ kb :> Map(kc :> Scalar(1))),
     Map(ka :> Scalar(1) @@ kb :> Scalar(2)),
     Map(ka :> Map(kb :> Scalar(1)) @@ kb :> Map(kc :> Scalar(5))),
     Map(ka :> Null @@ kb :> Scalar(1))}

FramePaths ==
    { ka,
      ka \o <<".">> \o kb,
      ka \o Bracket(IndexText(0)) \o <<".">> \o kb,
      Bracket(<<"a", ",", "b">>) \o Bracket(IndexText(0)),
      Bracket(<<"a", ",", "b">>) \o <<".">> \o kc,
      ka \o <<".", "*">>,
      <<"*", ".">> \o kb,
      <<".", ".">> \o kb,
      <<".", ".">> \o kb \o <<".">> \o kc,
      kb \o Bracket(IndexText(2)),
      Bracket(IndexText(0)) \o <<".">> \o ka,
      Bracket(IndexText(1)) \o Bracket(IndexText(3)) }

InitFrame == InitOn(FrameRoots)

NextFrame ==
    \/ op = "init" /\ \E p \in FramePaths : Start(p)
    \/ Use

SpecFrame == InitFrame /\ [][NextFrame]_vars

\* the callers that set along paths whose nodes are missing: maps that lack
\* the keys of the path or hold nil or an empty map under them
NewRoots == {Map(<<>>), Map(ka :> Null), Map(ka :> Map(<<>>)),
             Map(ka :> Map(kb :> Null)), Map(kb :> Scalar(1)),
             Map(ka :> Map(kc :> Scalar(1)))}

NewPaths ==
    { ka \o <<".">> \o kb \o Bracket(IndexText(0)) \o <<".">> \o kc,
      ka \o <<".">> \o kb,
      ka \o Bracket(IndexText(1)),
      ka \o Bracket(<<"0", ",", "2">>) \o <<".">> \o kb,
      Bracket(<<"a", ",", "c">>) \o Bracket(IndexText(1)),
      ka \o <<".">> \o kb \o Bracket(IndexText(1)) \o Bracket(IndexText(0)),
      ka \o <<".">> \o kb \o Bracket(IndexText(-1)),
      ka \o <<".">> \o kb \o <<".", "*">>,
      kb \o Bracket(<<"*">>),
      kc }

InitNew == InitOn(NewRoots)

NextNew ==
    \/ op = "init" /\ \E p \in NewPaths : Start(p)
    \/ Use

SpecNew == InitNew /\ [][NextNew]_vars

(***************************************************************************)
(* Properties                                                              *)
(***************************************************************************)
\* the compiled form of the path of the last call
Cur == Compile(path, <<>>).c

\* a Get has just returned, from the compiled path or from the package
AfterGet == op \in {"Get", "GetPath"}

\* a Set has just returned
AfterSet == op \in {"Set", "SetPath"}

\* the last Set returned normally (it did not panic)
SetReturned == setOut.err = NoErr \/ setOut.err.code # Panic

\* the segment can select more than one value: a wildcard, a recursive
\* segment, a range, or a list of several entries
FansOut(seg) ==
    \/ seg.isWildcard
    \/ seg.isRecursive
    \/ seg.isIndex /\ \E i \in 1..Len(seg.raw) : seg.raw[i] = ":"
    \/ Len(seg.keys) > 1
    \/ Len(seg.indexes) > 1

SomeFansOut(c) == \E i \in 1..Len(c.segments) : FansOut(c.segments[i])

\* the key occurs as a map key somewhere in the value
RECURSIVE HasKey(_, _)
HasKey(v, k) ==
    CASE v.kind = "map" -> k \in DOMAIN v.val \/ \E x \in DOMAIN v.val : HasKey(v.val[x], k)
      [] v.kind = "slice" -> \E i \in 1..Len(v.val) : HasKey(v.val[i], k)
      [] OTHER -> FALSE

\* C1: round trip. When a Set on a path with hasMulti = false returned no
\* error, the Get that follows on the same root with the same path returns no
\* error and a value equal to the one that was set.
RoundTrip ==
    (AfterGet /\ sets > 0 /\ setOut.err = NoErr /\ ~Cur.hasMulti)
    => (getOut.err = NoErr /\ getOut.ret = value)

EvalErrorCodes ==
    /\ (op = "Get" /\ getOut.err # NoErr) => getOut.err.code = NotFound
    /\ (op = "Set" /\ setOut.err # NoErr /\ SetReturned) => setOut.err.code = NotFound

\* C3 witness: the recursive search of a Get ended on a miss with no result,
\* and Get returned NotFound for it
EvalErrorCodesWitness ==
    /\ op = "Get" /\ getOut.err = Error(NotFound, <<"path not found">>)
    /\ \E o \in getNestedValues(ValueOf(root), compiled.c.segments) :
          o.err # NoErr /\ o.err.code = RecursiveMiss

\* C4: strict and lenient mode agree on existing data. When Get succeeds on a
\* root with a path, Set on that root with that path returns no error in
\* strict and in lenient mode and both leave equal trees.
StrictAgrees ==
    (/\ op = "Set" /\ value # Null
     /\ \A g \in CompiledGet(compiled.c, pre) : g.err = NoErr)
    => /\ setOut.err = NoErr
       /\ \A o \in CompiledSet(IF compiled.c.strictPaths THEN NewCompiledOf(compiled.c)
                               ELSE MSetStrict(compiled.c), pre, value) :
             o.err = NoErr /\ o.root = root

\* C5: a Get whose path is one recursive key segment, on a tree in which the
\* key occurs nowhere, returns NotFound "path not found" (never success with
\* an empty slice), whatever the order in which the maps are visited.
RecursiveGetNotFound ==
    (/\ AfterGet /\ Len(Cur.segments) = 1
     /\ Cur.segments[1].isRecursive /\ Cur.segments[1].isKey
     /\ ~HasKey(root, Cur.segments[1].keys[1]))
    => getOut.err = Error(NotFound, <<"path not found">>)

\* C6: a Set on a path with a recursive segment returns no error only if the
\* value was assigned somewhere.
RecursiveSetAssigns ==
    (/\ AfterSet /\ setOut.err = NoErr
     /\ \E i \in 1..Len(Cur.segments) : Cur.segments[i].isRecursive)
    => setOut.assigned

\* the sequence that a bracket path of the indexing callers addresses: the
\* root itself, or the sequence under the key a
SeqAtRoot == root.kind = "slice"

SeqAtA == root.kind = "map" /\ ka \in DOMAIN root.val /\ root.val[ka].kind = "slice"

TheSeq == IF SeqAtRoot THEN root.val ELSE root.val[ka].val

\* the path that addresses TheSeq with the bracket entries e
PathOn(e) == IF SeqAtRoot THEN Bracket(e) ELSE ka \o Bracket(e)

\* the last call used the bracket entries e on the sequence
OnSeq(e) == (SeqAtRoot \/ SeqAtA) /\ path = PathOn(e)

\* the elements of seq at positions a .. b-1
Elems(seq, a, b) == [i \in 1..(b - a) |-> seq[a + i]]

\* C7 as the specification states it: for 0 <= a <= b <= len(seq),
\* Get(seq, "[a:b]") returns exactly the elements at positions a .. b-1, in
\* order, b - a of them.
RangeGetUpToEqual ==
    \A a \in 0..IdxLen, b \in 0..IdxLen :
       (AfterGet /\ OnSeq(RangeText(Itoa(a), Itoa(b))) /\ a <= b /\ b <= Len(TheSeq))
       => (getOut.err = NoErr /\ getOut.ret = Slice(Elems(TheSeq, a, b)))

\* C7, amended: for 0 <= a < b <= len(seq), Get(seq, "[a:b]") returns exactly
\* the elements at positions a .. b-1, in order, b - a of them; for a = b the
\* path does not compile and Get returns InvalidPath.
RangeGet ==
    \A a \in 0..IdxLen, b \in 0..IdxLen :
       (AfterGet /\ OnSeq(RangeText(Itoa(a), Itoa(b))) /\ a <= b /\ b <= Len(TheSeq))
       => IF a < b
          THEN getOut.err = NoErr /\ getOut.ret = Slice(Elems(TheSeq, a, b))
          ELSE getOut.err # NoErr /\ getOut.err.code = InvalidPath

\* C7 witness: "[1:3]" on a sequence of three returned its last two elements
RangeGetWitness ==
    /\ AfterGet /\ OnSeq(RangeText(Itoa(1), Itoa(3))) /\ Len(TheSeq) = 3
    /\ getOut.ret = Slice(<<TheSeq[2], TheSeq[3]>>)

\* C8: an absent range bound takes its default independently of the other
\* bound: on a sequence of length n >= 1, [s:] selects positions s .. n-1,
\* [:e] selects positions 0 .. e-1, and [:] selects positions 0 .. n-1.
OpenRangeGet ==
    LET n == Len(TheSeq)
    IN  /\ \A s \in 0..IdxLen :
             (AfterGet /\ OnSeq(RangeText(Itoa(s), <<>>)) /\ n >= 1 /\ s < n)
             => (getOut.err = NoErr /\ getOut.ret = Slice(Elems(TheSeq, s, n)))
        /\ \A e \in 1..IdxLen :
             (AfterGet /\ OnSeq(RangeText(<<>>, Itoa(e))) /\ n >= 1 /\ e <= n)
             => (getOut.err = NoErr /\ getOut.ret = Slice(Elems(TheSeq, 0, e)))
        /\ (AfterGet /\ OnSeq(RangeText(<<>>, <<>>)) /\ n >= 1)
             => (getOut.err = NoErr /\ getOut.ret = Slice(TheSeq))

\* the set of the elements of a sequence
Range(q) == {q[i] : i \in 1..Len(q)}

\* the index entries of the last segment of the path of the last call
LastIndexes ==
    LET cp == Compile(path, <<>>)
    IN  IF cp.err = NoErr /\ Len(cp.c.segments) > 0
           /\ cp.c.segments[Len(cp.c.segments)].isIndex
        THEN cp.c.segments[Len(cp.c.segments)].indexes
        ELSE <<>>

\* C9: index resolution for one segment returns the ascending, duplicate-free
\* union of what its entries resolve to one by one, whatever their order or
\* overlap; it fails exactly when one entry fails; every index returned is
\* >= 0, and < the length when resolution is capped.  A Get through the
\* segment returns the elements at these positions, in this order.
IndexUnion ==
    LET L == LastIndexes
    IN  /\ \A length \in 0..IdxLen, cap \in BOOLEAN :
             LET r == parseIndexes(L, length, cap)
                 one(i) == parseIndexes(<<L[i]>>, length, cap)
             IN  /\ (r.err = NoErr) = (\A i \in 1..Len(L) : one(i).err = NoErr)
                 /\ r.err = NoErr =>
                      /\ Range(r.parsed) = UNION {Range(one(i).parsed) : i \in 1..Len(L)}
                      /\ \A i \in 1..Len(r.parsed) : \A j \in 1..Len(r.parsed) :
                            i < j => r.parsed[i] < r.parsed[j]
                      /\ \A i \in 1..Len(r.parsed) :
                            r.parsed[i] >= 0 /\ (cap => r.parsed[i] < length)
        /\ (AfterGet /\ L # <<>> /\ \E e \in EntryTexts \cup PairPaths : OnSeq(e))
           => LET r == parseIndexes(L, Len(TheSeq), TRUE)
              IN  IF r.err # NoErr THEN getOut.err = r.err
                  ELSE /\ getOut.err = NoErr
                       /\ getOut.vals = [i \in 1..Len(r.parsed) |-> TheSeq[r.parsed[i] + 1]]

\* C9 witness: "[1,0:2]", two overlapping entries out of order, returned the
\* first two elements of a sequence of three, in ascending order
IndexUnionWitness ==
    /\ AfterGet /\ OnSeq(<<"1", ",", "0", ":", "2">>) /\ Len(TheSeq) = 3
    /\ getOut.vals = <<TheSeq[1], TheSeq[2]>>

\* C10: on a sequence of length n >= 1, for 1 <= k <= n Get with the index
\* [-k] returns the same element as Get with the index [n-k]; for k > n it
\* returns NotFound "index out of range".
NegativeIndexGet ==
    LET n == Len(TheSeq)
    IN  \A k \in 1..(IdxLen + 1) :
           (AfterGet /\ OnSeq(IndexText(0 - k)) /\ n >= 1)
           => IF k <= n
              THEN /\ getOut.err = NoErr
                   /\ getOut.ret = TheSeq[n - k + 1]
                   /\ \A g \in Get(root, PathOn(IndexText(n - k))) :
                         g.err = NoErr /\ g.ret = getOut.ret
              ELSE /\ getOut.err # NoErr /\ getOut.err.code = NotFound
                   /\ getOut.err.msg[1] = "index out of range ("
                   /\ getOut.ret = Null

\* C10 witness: "[-2]" on a sequence of three returned its second element
NegativeIndexGetWitness ==
    /\ AfterGet /\ OnSeq(IndexText(-2)) /\ Len(TheSeq) = 3
    /\ getOut.err = NoErr /\ getOut.ret = TheSeq[2]

\* the root before the last Set held a sequence under the key a
PreSeqAtA == pre.kind = "map" /\ ka \in DOMAIN pre.val /\ pre.val[ka].kind = "slice"

PreSeq == pre.val[ka].val

\* the last Set ran with the slice check of strict mode
StrictSlicesSet == op = "Set" /\ compiled.c.strictSlices

\* n times the nil interface
Nulls(n) == [i \in 1..n |-> Null]

ChecksOf(name) ==
    CASE name \in {"SetStrict", "c.SetStrict"} -> {"paths", "maps", "slices"}
      [] name \in {"SetStrictPaths", "c.SetStrictPaths"} -> {"paths"}
      [] name \in {"SetStrictMaps", "c.SetStrictMaps"} -> {"maps"}
      [] name \in {"SetStrictSlices", "c.SetStrictSlices"} -> {"slices"}

\* the last Set was at an index >= len of the sequence under a
GrowsSeq ==
    /\ PreSeqAtA
    /\ \E N \in 0..(MaxLen + 1) : path = ka \o Bracket(IndexText(N)) /\ N >= Len(PreSeq)

\* the last Set was at the key b of a root map that lacked it
AddsKey == pre.kind = "map" /\ kb \notin DOMAIN pre.val /\ path = kb

\* the last Set was at "a.b" where the root map holds nil under a
MissingStructure ==
    /\ pre.kind = "map" /\ ka \in DOMAIN pre.val /\ pre.val[ka] = Null
    /\ path = ka \o <<".">> \o kb

\* the last Set was refused with NotFound and the message that begins with
\* msg, and changed nothing; or else it returned no error
RefusedIff(refused, msg) ==
    IF refused
    THEN /\ setOut.err # NoErr /\ setOut.err.code = NotFound
         /\ setOut.err.msg[1] = msg /\ root = pre
    ELSE setOut.err = NoErr /\ root # pre

\* C12: each strict option enables exactly its own check.  For a path
\* configured with one option or method: a Set at an index >= len is
\* refused with "index out of range" exactly under SetStrictSlices and
\* SetStrict, a Set of a missing map key is refused with "key does not
\* exist" exactly under SetStrictMaps and SetStrict, and a Set through a nil
\* node is refused with "path not found" exactly under SetStrictPaths and
\* SetStrict; what is not refused succeeds.
StrictOptionsOwnCheck ==
    (op = "Set" /\ value # Null /\ Len(compiled.config) = 1)
    => LET checks == ChecksOf(compiled.config[1])
       IN  /\ GrowsSeq => RefusedIff("slices" \in checks, "index out of range (")
           /\ AddsKey => RefusedIff("maps" \in checks, "key does not exist (")
           /\ MissingStructure => RefusedIff("paths" \in checks, "path not found (")

\* the largest element of a non-empty set of integers
Max(S) == CHOOSE x \in S : \A y \in S : x >= y

\* the positions an index segment names when nothing exists yet
Requested(seg) == {seg.indexes[i].idx : i \in 1..Len(seg.indexes)}

\* what a path must create for a missing node: for a key segment a map with
\* the keys of the segment, for an index segment a sequence of length
\* (largest index + 1) that is nil outside the indexes of the segment, and
\* the value v at the end of the path
RECURSIVE Created(_, _)
Created(segs, v) ==
    IF segs = <<>> THEN v
    ELSE IF Head(segs).isKey
    THEN Map([k \in Range(Head(segs).keys) |-> Created(Tail(segs), v)])
    ELSE Slice([i \in 1..(Max(Requested(Head(segs))) + 1) |->
                  IF (i - 1) \in Requested(Head(segs)) THEN Created(Tail(segs), v)
                  ELSE Null])

\* the path is made of key segments and of index segments with plain
\* indexes >= 0
Plain(segs) ==
    \A i \in 1..Len(segs) :
       /\ ~segs[i].isWildcard /\ ~segs[i].isRecursive
       /\ segs[i].isIndex =>
             \A j \in 1..Len(segs[i].indexes) :
                /\ ~segs[i].indexes[j].hasStart /\ ~segs[i].indexes[j].hasEnd
                /\ segs[i].indexes[j].idx >= 0

\* the path runs through maps of the node until it reaches a node that is
\* missing or nil
RECURSIVE RunsOut(_, _)
RunsOut(node, segs) ==
    /\ segs # <<>>
    /\ \/ node = Null
       \/ /\ node.kind = "map" /\ Head(segs).isKey
          /\ \A k \in Range(Head(segs).keys) :
                \/ k \notin DOMAIN node.val /\ Plain(Tail(segs))
                \/ k \in DOMAIN node.val /\ RunsOut(node.val[k], Tail(segs))

\* the node after the Set that C13 describes
RECURSIVE Vivified(_, _, _)
Vivified(node, segs, v) ==
    IF node = Null THEN Created(segs, v)
    ELSE Map([k \in DOMAIN node.val \cup Range(Head(segs).keys) |->
                IF k \notin Range(Head(segs).keys) THEN node.val[k]
                ELSE IF k \in DOMAIN node.val THEN Vivified(node.val[k], Tail(segs), v)
                ELSE Created(Tail(segs), v)])

\* the last Set ran without any check of strict mode
LenientSet == op = "SetPath" \/ (op = "Set" /\ compiled.config = <<>>)

RECURSIVE WildcardOnMissing(_, _)
WildcardOnMissing(node, segs) ==
    /\ segs # <<>>
    /\ ~Head(segs).isRecursive
    /\ IF Head(segs).isWildcard
       THEN node.kind \in {"invalid", "null", "scalar"}
       ELSE /\ Head(segs).isKey /\ Len(Head(segs).keys) = 1
            /\ node.kind \in {"invalid", "null", "map"}
            /\ WildcardOnMissing(IF node.kind = "map"
                                 THEN MapIndex(node, Head(segs).keys[1]) ELSE Invalid,
                                 Tail(segs))

\* C14: a Set whose path reaches a wildcard segment (.* or [*]) on a node
\* that is missing or a scalar returns a NotFound error, in lenient and in
\* strict mode, and leaves the document as it was: no container is created.
WildcardSetMissing ==
    (AfterSet /\ WildcardOnMissing(pre, Cur.segments))
    => (setOut.err # NoErr /\ setOut.err.code = NotFound /\ root = pre)

\* C14 witness: a lenient Set at "a.b.*" on the empty map, where a and b are
\* missing, returned NotFound
WildcardSetMissingWitness ==
    /\ AfterSet /\ LenientSet /\ pre = Map(<<>>)
    /\ path = ka \o <<".">> \o kb \o <<".", "*">>
    /\ setOut.err # NoErr /\ setOut.err.code = NotFound
    /\ setOut.err.msg[1] = "path not found ("

\* the branches that the first segment of the path selects in the map or
\* slice at the root: the keys or indexes (from 0) of the segment, or all of
\* them for a wildcard
Branches(node, seg) ==
    IF node.kind = "map"
    THEN IF seg.isWildcard THEN DOMAIN node.val
         ELSE Range(seg.keys) \cap DOMAIN node.val
    ELSE IF seg.isWildcard THEN {i - 1 : i \in 1..Len(node.val)}
         ELSE {x \in Requested(seg) : x < Len(node.val)}

\* the node of a branch
Branch(node, b) == IF node.kind = "map" THEN node.val[b] ELSE node.val[b + 1]

\* the first segment selects branches of the container at the root, one by
\* one: it is a wildcard or a list of keys or of plain indexes
SelectsBranches(node, seg) ==
    /\ ~seg.isRecursive
    /\ \/ node.kind = "map" /\ (seg.isWildcard \/ seg.isKey)
       \/ node.kind = "slice" /\ (seg.isWildcard \/ (seg.isIndex /\ Plain(<<seg>>)))

\* evaluating the rest of the path on the branch raises a NotFound failure
BranchFails(c, node, rest, v) ==
    \A o \in setNestedValuesTyped(c, node, FALSE, rest, v, FALSE) :
       o.err # NoErr /\ o.err.code = NotFound

\* C15: when the evaluation of one of the branches that a Set selects raises
\* a NotFound failure, the Set returns a NotFound error, also when another
\* branch of the same multi-select or wildcard succeeds before or after it.
SetBranchFailure ==
    (/\ AfterSet /\ value # Null
     /\ pre.kind \in {"map", "slice"} /\ Len(compiled.c.segments) > 1
     /\ SelectsBranches(pre, Head(compiled.c.segments))
     /\ \E b \in Branches(pre, Head(compiled.c.segments)) :
           BranchFails(compiled.c, Branch(pre, b), Tail(compiled.c.segments), value))
    => (setOut.err # NoErr /\ setOut.err.code = NotFound)

\* the node would receive the value at the final segment: a map at a list of
\* keys (that exist, under strictPaths), a slice at plain indexes from 0 on
\* (inside the slice, under strictPaths)
Receives(c, node, seg) ==
    /\ ~seg.isWildcard /\ ~seg.isRecursive
    /\ \/ /\ node.kind = "map" /\ seg.isKey
          /\ c.strictPaths => Range(seg.keys) \subseteq DOMAIN node.val
       \/ /\ node.kind = "slice" /\ seg.isIndex
          /\ \A j \in 1..Len(seg.indexes) :
                /\ ~seg.indexes[j].hasStart /\ ~seg.indexes[j].hasEnd
                /\ seg.indexes[j].idx >= 0
                /\ c.strictPaths => seg.indexes[j].idx < Len(node.val)

\* the node has a static element type that the type of v is not
Refuses(node, v) == ElemType(node) # "interface {}" /\ TypeOf(v) # ElemType(node)

\* the last Set had a value other than nil and a path of one segment on a
\* receiving document, or of a list of keys and a final segment on a map
\* all of whose selected entries are receiving maps or slices
ReceiverCase ==
    /\ Usable /\ AfterSet /\ value # Null
    /\ \/ /\ Len(compiled.c.segments) = 1
          /\ Receives(compiled.c, pre, compiled.c.segments[1])
       \/ /\ Len(compiled.c.segments) = 2
          /\ pre.kind = "map"
          /\ Receives(compiled.c, pre, compiled.c.segments[1])
          /\ \A k \in Range(compiled.c.segments[1].keys) :
                /\ k \in DOMAIN pre.val
                /\ pre.val[k].kind \in {"map", "slice"}
                /\ Receives(compiled.c, pre.val[k], compiled.c.segments[2])

\* the receivers of the last Set that refuse its value, as keys of the
\* document (the empty key stands for the document itself)
Refusers ==
    IF Len(compiled.c.segments) = 1
    THEN IF Refuses(pre, value) THEN {<<>>} ELSE {}
    ELSE {k \in Range(compiled.c.segments[1].keys) : Refuses(pre.val[k], value)}

\* the receiver is as it was before the last Set
Kept(k) ==
    IF k = <<>> THEN root = pre
    ELSE root.kind = "map" /\ k \in DOMAIN root.val /\ root.val[k] = pre.val[k]

\* C19: when a container that would receive the value has a static element
\* type that the type of the value is not, the Set returns NotFound "cannot
\* assign type X to type Y" and the container keeps its elements; a Set of a
\* value that every receiver accepts succeeds.
StaticElementType ==
    ReceiverCase =>
       IF Refusers # {}
       THEN /\ setOut.err # NoErr /\ setOut.err.code = NotFound
            /\ setOut.err.msg[1] = "cannot assign type "
            /\ \A k \in Refusers : Kept(k)
       ELSE setOut.err = NoErr

\* the entries of the index segment are plain indexes (no ranges)
PlainIndexes(seg) ==
    \A j \in 1..Len(seg.indexes) : ~seg.indexes[j].hasStart /\ ~seg.indexes[j].hasEnd

\* what a Get along the segments misses first in the node, walking through
\* single keys and single indexes: "key" when a non-recursive key segment
\* names a key that the map lacks and nothing else can fail before it,
\* "branch" when it names such a key after entries whose evaluation goes on,
\* "index" when a non-recursive index segment names an index outside
\* [0, len) (counted from the end when negative), and "none" otherwise
RECURSIVE Missing(_, _)
Missing(node, segs) ==
    IF segs = <<>> \/ Head(segs).isRecursive \/ Head(segs).isWildcard THEN "none"
    ELSE IF node.kind = "map" /\ Head(segs).isKey
    THEN IF \E k \in Range(Head(segs).keys) : k \notin DOMAIN node.val
         THEN IF Tail(segs) = <<>> \/ Head(segs).keys[1] \notin DOMAIN node.val
              THEN "key" ELSE "branch"
         ELSE IF Len(Head(segs).keys) = 1
         THEN Missing(node.val[Head(segs).keys[1]], Tail(segs))
         ELSE "none"
    ELSE IF node.kind = "slice" /\ Head(segs).isIndex /\ PlainIndexes(Head(segs))
    THEN IF \E x \in Requested(Head(segs)) : x >= Len(node.val) \/ x < 0 - Len(node.val)
         THEN "index"
         ELSE IF Len(Head(segs).indexes) = 1
         THEN Missing(node.val[(Head(segs).indexes[1].idx % Len(node.val)) + 1], Tail(segs))
         ELSE "none"
    ELSE "none"

\* C16: a Get whose path has a non-recursive key segment naming a key that
\* the map lacks, or a non-recursive index segment naming an index outside
\* [0, len), returns a NotFound error ("key does not exist", "index out of
\* range") and no value, also when the other entries of the same
\* multi-select exist.
GetMissingEntry ==
    (AfterGet /\ Missing(root, Cur.segments) # "none")
    => /\ getOut.err # NoErr /\ getOut.err.code = NotFound
       /\ getOut.ret = Null
       /\ Missing(root, Cur.segments) = "key" => getOut.err.msg[1] = "key does not exist ("
       /\ Missing(root, Cur.segments) = "index" => getOut.err.msg[1] = "index out of range ("

\* C16 witness: Get at "[a,b]" on a map that has the key a and lacks b
GetMissingEntryWitness ==
    /\ AfterGet /\ path = Bracket(<<"a", ",", "b">>)
    /\ root.kind = "map" /\ DOMAIN root.val = {ka}
    /\ getOut.err # NoErr /\ getOut.err.msg[1] = "key does not exist ("

\* the values under the key k at any depth of the node, through maps and
\* sequences and below other occurrences of k, one for every occurrence
RECURSIVE Occurrences(_, _)
RECURSIVE OccurrencesIn(_, _, _)
OccurrencesIn(node, keys, k) ==
    IF keys = {} THEN <<>>
    ELSE LET x == CHOOSE y \in keys : TRUE
         IN  (IF node.kind = "map" /\ x = k THEN <<node.val[x]>> ELSE <<>>)
             \o Occurrences(node.val[x], k)
             \o OccurrencesIn(node, keys \ {x}, k)

Occurrences(node, k) ==
    IF node.kind \in {"map", "slice"} THEN OccurrencesIn(node, DOMAIN node.val, k)
    ELSE <<>>

\* the number of times x occurs in the sequence q
Count(q, x) == Cardinality({i \in 1..Len(q) : q[i] = x})

\* the two sequences hold the same values the same number of times
SameMultiset(q, r) ==
    /\ Len(q) = Len(r)
    /\ \A x \in Range(q) \cup Range(r) : Count(q, x) = Count(r, x)

CompiledPathUnchanged ==
    Usable => /\ compiled.c.segments = Cur.segments
              /\ compiled.c.hasMulti = Cur.hasMulti

\* the path from its character i on (counted from 1) has, outside quotes, a
\* '[' while a bracket is open, a ']' while none is open or a quote outside
\* brackets, or ends with a bracket or a quote open; inBracket and inQuote
\* are the state before the character i and quoteChar the quote that opened;
\* a quote ends at the next quoteChar that no backslash precedes
RECURSIVE Unbalanced(_, _, _, _, _)
Unbalanced(p, i, inBracket, inQuote, quoteChar) ==
    IF i > Len(p) THEN inBracket \/ inQuote
    ELSE IF inQuote
    THEN Unbalanced(p, i + 1, inBracket, ~(p[i] = quoteChar /\ p[i - 1] # "\\"), quoteChar)
    ELSE IF p[i] \in {"'", "\""}
    THEN ~inBracket \/ Unbalanced(p, i + 1, inBracket, TRUE, p[i])
    ELSE IF p[i] = "["
    THEN inBracket \/ Unbalanced(p, i + 1, TRUE, FALSE, quoteChar)
    ELSE IF p[i] = "]"
    THEN ~inBracket \/ Unbalanced(p, i + 1, FALSE, FALSE, quoteChar)
    ELSE Unbalanced(p, i + 1, inBracket, FALSE, quoteChar)

\* the path is one bracket segment with one quoted entry, whose characters
\* are letters, separators and brackets
QuotedEntry(p) ==
    /\ Len(p) >= 5
    /\ p[1] = "[" /\ p[2] = "'" /\ p[Len(p) - 1] = "'" /\ p[Len(p)] = "]"
    /\ \A j \in 3..(Len(p) - 2) : p[j] \in {"a", ".", "[", "]"}

\* C20: Compile returns InvalidPath whenever the path has, outside quotes, a
\* '[' while a bracket is open, a ']' while no bracket is open, or a quote
\* outside brackets, or ends with a bracket or a quote still open; the
\* bracket characters of a quoted entry are characters of its key and raise
\* no error.
BracketsAndQuotes ==
    op = "Compile" =>
       /\ Unbalanced(path, 1, FALSE, FALSE, "")
             => (compiled.err # NoErr /\ compiled.err.code = InvalidPath /\ compiled.isNil)
       /\ QuotedEntry(path)
             => /\ compiled.err = NoErr
                /\ Len(compiled.c.segments) = 1
                /\ compiled.c.segments[1].keys = <<SubSeq(path, 3, Len(path) - 2)>>

\* C20 witness: Compile("[a[a]") found the second '[' and returned
\* InvalidPath "missing closing bracket"
BracketsAndQuotesWitness ==
    /\ op = "Compile" /\ path = <<"[", "a", "[", "a", "]">>
    /\ compiled.err = Error(InvalidPath, <<"missing closing bracket">>)

\* the path has only letters and separators
DottedPath(p) == \A j \in 1..Len(p) : p[j] \in {"a", "."}

\* the path has three consecutive dots, or ends with two
DotsMisused(p) ==
    \/ \E j \in 1..(Len(p) - 2) : p[j] = "." /\ p[j + 1] = "." /\ p[j + 2] = "."
    \/ Len(p) >= 2 /\ p[Len(p)] = "." /\ p[Len(p) - 1] = "."

\* for every run of letters of the path from the character i on, in order,
\* whether exactly two dots precede it; dots counts the dots just before i
RECURSIVE RecursiveRuns(_, _, _)
RecursiveRuns(p, i, dots) ==
    IF i > Len(p) THEN <<>>
    ELSE IF p[i] = "." THEN RecursiveRuns(p, i + 1, dots + 1)
    ELSE IF i > 1 /\ p[i - 1] # "." THEN RecursiveRuns(p, i + 1, 0)
    ELSE <<dots = 2>> \o RecursiveRuns(p, i + 1, 0)

\* C21: Compile marks a segment recursive exactly when two consecutive dots
\* outside quotes introduce it, and a path with three or more consecutive
\* dots, or with a '..' and nothing after it, returns InvalidPath "invalid
\* recursive path".
RecursiveMarker ==
    (op = "Compile" /\ path # <<".">>) =>
       /\ compiled.err = NoErr =>
             \A j \in 1..Len(compiled.c.segments) :
                compiled.c.segments[j].isRecursive
                   <=> (/\ Len(compiled.c.segments[j].raw) >= 2
                        /\ SubSeq(compiled.c.segments[j].raw, 1, 2) = <<".", ".">>)
       /\ (DottedPath(path) /\ compiled.err = NoErr) =>
             [j \in 1..Len(compiled.c.segments) |-> compiled.c.segments[j].isRecursive]
                = RecursiveRuns(path, 1, 0)
       /\ (DottedPath(path) /\ DotsMisused(path)) =>
             compiled.err = Error(InvalidPath, <<"invalid recursive path">>)

\* the text that the characters str between quotes q stand for: a backslash
\* and the quote stand for the quote
RECURSIVE Literal(_, _)
Literal(str, q) ==
    IF str = <<>> THEN <<>>
    ELSE IF Len(str) >= 2 /\ str[1] = "\\" /\ str[2] = q
    THEN <<q>> \o Literal(SubSeq(str, 3, Len(str)), q)
    ELSE <<str[1]>> \o Literal(Tail(str), q)

\* the characters between quotes q have no quote q that ends them early
RECURSIVE Enclosed(_, _)
Enclosed(str, q) ==
    IF str = <<>> THEN TRUE
    ELSE IF Len(str) >= 2 /\ str[1] = "\\" /\ str[2] = q
    THEN Enclosed(SubSeq(str, 3, Len(str)), q)
    ELSE str[1] # q /\ (Len(str) = 1 => str[1] # "\\") /\ Enclosed(Tail(str), q)

\* the path is one bracket segment with one entry between quotes
OneQuotedEntry(p) ==
    /\ Len(p) >= 4
    /\ p[1] = "[" /\ p[2] \in {"'", "\""} /\ p[Len(p) - 1] = p[2] /\ p[Len(p)] = "]"
    /\ Enclosed(SubSeq(p, 3, Len(p) - 2), p[2])

\* C22: a quoted bracket entry compiles to the literal key that is the text
\* between the quotes, an escaped quote standing for the quote, also when
\* the text is an integer, a range or '*' or holds brackets, '.', ',' or
\* spaces; the segment is of key kind, not of index kind and no wildcard.
QuotedEntryLiteral ==
    (op = "Compile" /\ OneQuotedEntry(path)) =>
       /\ compiled.err = NoErr
       /\ Len(compiled.c.segments) = 1
       /\ compiled.c.segments[1].keys = <<Literal(SubSeq(path, 3, Len(path) - 2), path[2])>>
       /\ compiled.c.segments[1].isKey
       /\ ~compiled.c.segments[1].isIndex
       /\ ~compiled.c.segments[1].isWildcard
       /\ compiled.c.segments[1].indexes = <<>>

\* C22 witness: Compile("['\\':1']") gave the single key ':1
QuotedEntryLiteralWitness ==
    /\ op = "Compile"
    /\ path = <<"[", "'", "\\", "'", ":", "1", "'", "]">>
    /\ compiled.err = NoErr
    /\ compiled.c.segments[1].keys = << <<"'", ":", "1">> >>
    /\ compiled.c.segments[1].isKey

\* the path is one pair of brackets around letters, dots and commas
OneBracket(p) ==
    /\ Len(p) >= 3 /\ p[1] = "[" /\ p[Len(p)] = "]"
    /\ \A j \in 2..(Len(p) - 1) : p[j] \in {"a", ".", ","}

\* C23: everything between an unquoted '[' and its ']' compiles to exactly
\* one segment: a '.' or a ',' inside the brackets starts no new segment.
BracketIsOneSegment ==
    (op = "Compile" /\ OneBracket(path) /\ compiled.err = NoErr) =>
       /\ Len(compiled.c.segments) = 1
       /\ compiled.c.segments[1].raw = path

\* the node resolves the key segment k
Resolves(node, k) == node.kind = "map" /\ k \in DOMAIN node.val

\* C24: when a node that the recursive segment of "..b.c" matches cannot
\* resolve the segment c that follows (it is a scalar, nil or a sequence, or
\* a map without the key c), the Get fails with NotFound and returns no
\* value, also when other matches of b resolve c.
RecursiveMatchFails ==
    (/\ AfterGet /\ path = <<".", ".">> \o kb \o <<".">> \o kc
     /\ \E i \in 1..Len(Occurrences(root, kb)) : ~Resolves(Occurrences(root, kb)[i], kc))
    => /\ getOut.err # NoErr /\ getOut.err.code = NotFound
       /\ getOut.ret = Null

\* C24 witness: Get("..b.c") on {"a": {"b": {"c": 2}, "c": {"b": 3}}} failed
\* with NotFound: a.b resolves c, a.c.b is a number
RecursiveMatchFailsWitness ==
    /\ AfterGet /\ path = <<".", ".">> \o kb \o <<".">> \o kc
    /\ root = Map(ka :> Map(kb :> Map(kc :> Scalar(2)) @@ kc :> Map(kb :> Scalar(3))))
    /\ getOut.err # NoErr /\ getOut.err.code = NotFound
    /\ getOut.ret = Null

\* the elements at index 1 of the sequences at any depth of the node, the
\* node included, one for every sequence of two elements or more
RECURSIVE SecondElements(_)
RECURSIVE SecondElementsIn(_, _)
SecondElementsIn(node, keys) ==
    IF keys = {} THEN <<>>
    ELSE LET x == CHOOSE y \in keys : TRUE
         IN  SecondElements(node.val[x]) \o SecondElementsIn(node, keys \ {x})

SecondElements(node) ==
    IF node.kind = "slice"
    THEN (IF Len(node.val) >= 2 THEN <<node.val[2]>> ELSE <<>>)
         \o SecondElementsIn(node, DOMAIN node.val)
    ELSE IF node.kind = "map" THEN SecondElementsIn(node, DOMAIN node.val)
    ELSE <<>>

\* C25: under a recursive segment a node that cannot satisfy it (a scalar,
\* nil, a map, a sequence that lacks the index) adds no result and does not
\* end the search: Get(root, "a..[1]") returns the element at index 1 of
\* every sequence of two elements or more at any depth below a, and fails
\* with NotFound only when there is none.
RecursiveIndexSearch ==
    (/\ AfterGet /\ path = ka \o <<".", ".">> \o Bracket(IndexText(1))
     /\ root.kind = "map" /\ ka \in DOMAIN root.val)
    => IF SecondElements(root.val[ka]) # <<>>
       THEN /\ getOut.err = NoErr
            /\ getOut.ret.kind = "slice"
            /\ SameMultiset(getOut.ret.val, SecondElements(root.val[ka]))
       ELSE getOut.err # NoErr /\ getOut.err.code = NotFound

\* the keys or positions (from 0) of the node that the segment selects
Selects(node, seg) ==
    IF seg.isWildcard \/ seg.isRecursive
    THEN IF node.kind = "map" THEN DOMAIN node.val ELSE {i - 1 : i \in DOMAIN node.val}
    ELSE IF node.kind = "map" THEN Range(seg.keys)
    ELSE Requested(seg)

\* the segments that remain below the key k of a map and below the
\* position i of a sequence
BelowKey(segs, k) ==
    IF Head(segs).isRecursive /\ k \notin Range(Head(segs).keys) THEN segs ELSE Tail(segs)

BelowIndex(segs, i) ==
    IF Head(segs).isRecursive /\ i \notin Requested(Head(segs)) THEN segs ELSE Tail(segs)

\* the node after differs from the node before only where the segments
\* select: keys and elements that the first segment does not select are as
\* before, a sequence grows by nil and selected elements only, a map gains
\* selected keys only, and the same holds below every selected entry
RECURSIVE OnlySelected(_, _, _)
OnlySelected(before, after, segs) ==
    IF segs = <<>> THEN TRUE
    ELSE IF before.kind = "map"
    THEN /\ after.kind = "map"
         /\ DOMAIN after.val \subseteq DOMAIN before.val \cup Selects(before, Head(segs))
         /\ \A k \in DOMAIN before.val :
               IF k \in Selects(before, Head(segs))
               THEN k \in DOMAIN after.val
                       => OnlySelected(before.val[k], after.val[k], BelowKey(segs, k))
               ELSE k \in DOMAIN after.val /\ after.val[k] = before.val[k]
    ELSE IF before.kind = "slice"
    THEN /\ after.kind = "slice"
         /\ Len(after.val) >= Len(before.val)
         /\ \A i \in 1..Len(after.val) :
               IF (i - 1) \in Selects(before, Head(segs))
               THEN i <= Len(before.val)
                       => OnlySelected(before.val[i], after.val[i], BelowIndex(segs, i - 1))
               ELSE IF i <= Len(before.val) THEN after.val[i] = before.val[i]
               ELSE after.val[i] = Null
    ELSE Head(segs).isRecursive => after = before

\* C26: a Set that returns no error changes the document only at the
\* locations that the path selects and by the containers and the padding it
\* creates to reach them: every other key, element and subtree is as before.
SetFrame ==
    (AfterSet /\ setOut.err = NoErr) => OnlySelected(pre, root, Cur.segments)

\* C26 witness: Set({"a": {"b": 1, "c": 2}, "b": [1, 2]}, "b[2]", 7) left
\* {"a": {"b": 1, "c": 2}, "b": [1, 2, 7]}
SetFrameWitness ==
    /\ AfterSet /\ setOut.err = NoErr /\ value = Scalar(7)
    /\ path = kb \o Bracket(IndexText(2))
    /\ pre = Map(ka :> Map(kb :> Scalar(1) @@ kc :> Scalar(2))
                @@ kb :> Slice(<<Scalar(1), Scalar(2)>>))
    /\ root = Map(ka :> Map(kb :> Scalar(1) @@ kc :> Scalar(2))
                 @@ kb :> Slice(<<Scalar(1), Scalar(2), Scalar(7)>>))

\* C27: a Set that returns an error leaves the document as it was before
\* the call: nothing is assigned, created or grown, also when the failure
\* comes in a later branch of a multi-select, a wildcard or a recursive path.
FailedSetKeeps ==
    (AfterSet /\ setOut.err # NoErr /\ setOut.err.code # Panic /\ value # Null)
    => root = pre

\* the path leads through single keys of maps to a number of the node and
\* goes on there with a segment that is not recursive
RECURSIVE ReachesScalar(_, _)
ReachesScalar(node, segs) ==
    /\ segs # <<>> /\ ~Head(segs).isRecursive
    /\ \/ node.kind = "scalar"
       \/ /\ node.kind = "map" /\ Head(segs).isKey /\ ~Head(segs).isWildcard
          /\ Len(Head(segs).keys) = 1
          /\ Head(segs).keys[1] \in DOMAIN node.val
          /\ ReachesScalar(node.val[Head(segs).keys[1]], Tail(segs))

\* C28: a lenient Set creates containers only where the node is missing or
\* nil: when the path reaches an existing number with segments that are not
\* recursive still to go, the Set returns NotFound "path not found" and the
\* number stays.
ScalarNotReplaced ==
    (AfterSet /\ LenientSet /\ value # Null /\ ReachesScalar(pre, Cur.segments))
    => /\ setOut.err # NoErr /\ setOut.err.code = NotFound
       /\ setOut.err.msg[1] = "path not found ("
       /\ root = pre

\* C29: Set and Get select the same places. When a Set of the number 7 along
\* a path has returned no error and a Get of the same path on the document it
\* left returns no error, every value the Get returns is that number.
SetThenGet ==
    (/\ AfterGet /\ sets >= 1
     /\ setOut.err = NoErr /\ value = Scalar(7)
     /\ getOut.err = NoErr)
    => \A i \in 1..Len(getOut.vals) : getOut.vals[i] = value

\* the outcomes of the last Set had it been called with the number 7
SetOfNumber ==
    IF op = "SetPath" THEN Set(pre, path, Scalar(7))
    ELSE CompiledSet(compiled.c, pre, Scalar(7))

\* the document with nil in every place of the number 7
RECURSIVE Nulled(_)
Nulled(node) ==
    CASE node.kind = "map" -> Map([k \in DOMAIN node.val |-> Nulled(node.val[k])])
      [] node.kind = "slice" -> Slice([i \in 1..Len(node.val) |-> Nulled(node.val[i])])
      [] node = Scalar(7) -> Null
      [] OTHER -> node

\* C30: Set accepts nil as the new value. Where a Set of a number along the
\* path on the same document returns no error, the Set of nil returns no
\* error either, does not panic, and leaves nil in the places where the
\* number would have been put.
NullAccepted ==
    (/\ AfterSet /\ value = Null
     /\ \E o \in SetOfNumber : o.err = NoErr)
    => /\ setOut.err = NoErr
       /\ \E o \in SetOfNumber : o.err = NoErr /\ root = Nulled(o.root)

====
